---- MODULE Spec2Model ----
(***************************************************************************)
(* A model of the streaming transcription core of agent-notes-cpp:         *)
(*   - AudioBuffer            (src/src/AudioBuffer.cpp)                    *)
(*   - TranscriptDeduplicator (src/src/TranscriptDeduplicator.cpp)         *)
(*   - WhisperTranscriber     (src/src/WhisperTranscriber.cpp), its        *)
(*     producer/consumer queue, flush policy, stop/start and stitching.    *)
(*                                                                         *)
(* Conventions.                                                            *)
(*   Text is a sequence of character codes (ASCII), so that tolower,       *)
(*   isspace, find and substr are computed as the code computes them.      *)
(*   Times are integers in milliseconds; a double product that the code    *)
(*   computes is rounded down to a millisecond.                            *)
(*   Confidences and the confidence weight are integers in percent.        *)
(*   A similarity score is an exact fraction <<numerator, denominator>>.   *)
(*   Audio is counted in blocks of 4000 samples (250 ms at 16 kHz);        *)
(*   each block carries the id of the chunk it came from.                  *)
(***************************************************************************)
EXTENDS Integers, Sequences, FiniteSets, TLC

VARIABLES
    \* ---- AudioBuffer (ring buffer) ----
    buffer_,            \* std::vector<float> buffer_ : index 0..size_-1
    writeIndex_,
    readIndex_,
    availableSamples_,
    ringAccepted,       \* history: samples accepted by write since construction / clear
    ringReturned,       \* history: samples returned by read since construction / clear
    ringLast,           \* history: the last call, its arguments and its return value
    mutex_,             \* who holds AudioBuffer::mutex_: "free", "writer" or "reader"
    ringWriter,         \* the thread that calls write: its position and the locals of write
    ringReader,         \* the thread that calls read, clear and getAvailableSamples: position and locals
    \* ---- TranscriptDeduplicator ----
    config_,            \* TranscriptDeduplicator::config_
    recentSegments_,    \* std::deque<Segment> recentSegments_ (front = index 1)
    dedupLog,           \* history: <<[in, out, cfg]>> of processSegment calls since construction / clearContext
    dedupCalls,         \* history: number of processSegment calls made
    \* ---- WhisperTranscriber (real-time pipeline) ----
    initialized_,
    wtConfig,           \* WhisperTranscriber::config_ (the part the pipeline reads)
    audioQueue_,        \* std::queue<pair<vector<float>, double>>, front = index 1
    queueMutex_,        \* who holds queueMutex_: "free", "worker" or "ctl"
    shouldStop_,
    resultCallback_,    \* NoCallback (empty std::function) or a callback id
    joinable,           \* processingThread_.joinable()
    audioBuffer_,       \* accumulation buffer
    bufferStartTime_,
    overlapBuffer_,     \* retained overlap tail
    recentResults_,     \* stitch history
    workerPc,           \* position of processingThreadFunction
    workerRet,          \* where processBuffer returns to: "relock" or "ended"
    workerChunk,        \* the local audioData of the worker's inner loop
    processing,         \* the locals of processBuffer during the engine call
    ctlPc,              \* position of the thread that calls start / stop
    captureBase,        \* the capture clock's time of the first chunk
    captureBlocks,      \* blocks delivered by the capture callback so far
    chunksAdded,        \* history: chunks accepted by addAudioData (ids 1..chunksAdded)
    session,            \* history: number of sessions started
    dequeued,           \* history: chunks popped by the worker in this session
    flushLog,           \* history: one record per flush of this session
    preStopChunks,      \* history: ids enqueued before the worker observed the stop flag
    stopObserved,       \* history: the worker of this session has read shouldStop_ = true
    exitLen,            \* history: Len(audioBuffer_) when the worker left its loop
    emittedBefore,      \* history: segments emitted in earlier sessions
    stitchLog,          \* history: <<[before, in, out]>> of the fixPunctuation calls made on their own
    addLast,            \* history: the last observed addAudioData call and the number of such calls
    helperLast,         \* history: the last call of a helper function made on its own, its arguments and its result
    acceptedChunks      \* history: the chunks addAudioData queued since construction or the last clearing by stop

ringThreadVars == <<mutex_, ringWriter, ringReader>>
ringVars  == <<buffer_, writeIndex_, readIndex_, availableSamples_, ringAccepted, ringReturned, ringLast,
               ringThreadVars>>
dedupVars == <<config_, recentSegments_, dedupLog, dedupCalls>>
pipeVars  == <<initialized_, wtConfig, audioQueue_, queueMutex_, shouldStop_, resultCallback_,
               joinable, audioBuffer_, bufferStartTime_, overlapBuffer_, recentResults_,
               workerPc, workerRet, workerChunk, processing, ctlPc, captureBase,
               captureBlocks, chunksAdded, session, dequeued, flushLog, preStopChunks,
               stopObserved, exitLen, emittedBefore, stitchLog, addLast,
               helperLast, acceptedChunks>>
vars      == <<ringVars, dedupVars, pipeVars>>

Min(a, b) == IF a < b THEN a ELSE b
Max(a, b) == IF a > b THEN a ELSE b

(***************************************************************************)
(* Text helpers (character codes)                                          *)
(***************************************************************************)
\* isspace in the "C" locale: space, \t \n \v \f \r
IsSpace(c) == c = 32 \/ c \in 9..13
IsLower(c) == c \in 97..122
IsUpper(c) == c \in 65..90
ToLower(c) == IF IsUpper(c) THEN c + 32 ELSE c
LowerText(t) == [i \in 1..Len(t) |-> ToLower(t[i])]

TheQuickBrownFox == <<116, 104, 101, 32, 113, 117, 105, 99, 107, 32, 98, 114, 111, 119, 110, 32, 102, 111, 120>>  \* "the quick brown fox"
BrownFoxJumps == <<98, 114, 111, 119, 110, 32, 102, 111, 120, 32, 106, 117, 109, 112, 115>>  \* "brown fox jumps"
TheQuick == <<116, 104, 101, 32, 113, 117, 105, 99, 107>>  \* "the quick"
Fox == <<102, 111, 120>>  \* "fox"
Jumps == <<106, 117, 109, 112, 115>>  \* "jumps"
HelloWorldUpper == <<72, 101, 108, 108, 111, 32, 87, 111, 114, 108, 100>>  \* "Hello World"
HelloWorldLower == <<104, 101, 108, 108, 111, 32, 119, 111, 114, 108, 100>>  \* "hello world"
HelloWorldDot == <<72, 101, 108, 108, 111, 32, 119, 111, 114, 108, 100, 46>>  \* "Hello world."
HelloWorldAgainRaw == <<32, 104, 101, 108, 108, 111, 32, 119, 111, 114, 108, 100, 32, 97, 103, 97, 105, 110>>  \* " hello world again"
ReallyQ == <<82, 101, 97, 108, 108, 121, 63>>  \* "Really?"
StopBang == <<83, 116, 111, 112, 33>>  \* "Stop!"
GoodNight == <<103, 111, 111, 100, 32, 110, 105, 103, 104, 116>>  \* "good night"
SayGoodNight == <<115, 97, 121, 32, 103, 111, 111, 100, 32, 110, 105, 103, 104, 116>>  \* "say good night"
GoodNightMoon == <<103, 111, 111, 100, 32, 110, 105, 103, 104, 116, 32, 32, 109, 111, 111, 110>>  \* "good night  moon"
GoOn == <<103, 111, 32, 111, 110>>  \* "go on"
OnWeGo == <<111, 110, 32, 119, 101, 32, 103, 111>>  \* "on we go"
HelloWorldAgain == <<104, 101, 108, 108, 111, 32, 119, 111, 114, 108, 100, 32, 97, 103, 97, 105, 110>>  \* "hello world again"

(***************************************************************************)
(* TranscriptDeduplicator                                                  *)
(* The recursive helpers test their accumulator first: it has no effect on *)
(* the value and keeps the evaluation depth of the loop they model flat.   *)
(***************************************************************************)
Segment(t, start, end, conf) ==
    [text |-> t, startTime |-> start, endTime |-> end, confidence |-> conf]

\* Config{} with the member initializers of the header
DefaultDedupConfig ==
    [slidingWindowSize |-> 10, overlapThreshold |-> <<7, 10>>, confidenceWeight |-> 30,
     maxContextSegments |-> 5, enableFuzzyMatching |-> TRUE]

SimGT(a, b) == a[1] * b[2] > b[1] * a[2]
SimGE(a, b) == a[1] * b[2] >= b[1] * a[2]

RECURSIVE SplitFrom(_, _, _, _)
SplitFrom(text, i, word, words) ==
    IF Len(words) >= 0 /\ Len(word) >= 0 /\ i > Len(text)
    THEN IF word = <<>> THEN words ELSE Append(words, word)
    ELSE IF IsSpace(text[i])
         THEN SplitFrom(text, i + 1, <<>>, IF word = <<>> THEN words ELSE Append(words, word))
         ELSE SplitFrom(text, i + 1, Append(word, text[i]), words)

\* while (iss >> word) words.push_back(word)
splitWords(text) == SplitFrom(text, 1, <<>>, <<>>)

\* the default argument end = SIZE_MAX (any value above every word count acts alike)
SIZE_MAX == 2147483647

RECURSIVE JoinFrom(_, _, _, _, _)
JoinFrom(words, start, end, i, acc) ==
    IF Len(acc) >= 0 /\ i >= end THEN acc
    ELSE JoinFrom(words, start, end, i + 1,
                  (IF i > start THEN Append(acc, 32) ELSE acc) \o words[i + 1])

\* start and end are the 0-based word indices of the code, end exclusive
joinWords(words, start, end) ==
    IF start >= Len(words) THEN <<>>
    ELSE JoinFrom(words, start, Min(end, Len(words)), start, <<>>)

Min3(a, b, c) == Min(a, Min(b, c))

RECURSIVE LevCellsNoSubstitution(_, _, _, _, _, _)
\* a table that only knows insertion and deletion
LevCellsNoSubstitution(s1, s2, i, prev, j, row) ==
    IF Len(row) > Len(s2) THEN row
    ELSE LevCellsNoSubstitution(s1, s2, i, prev, j + 1,
                                Append(row, IF s1[i] = s2[j]
                                            THEN prev[j]
                                            ELSE 1 + Min(prev[j + 1], row[j])))

RECURSIVE LevCells(_, _, _, _, _, _)
\* row i of the table from row i-1 (prev); both hold dp[.][0..len2] at indices 1..len2+1
LevCells(s1, s2, i, prev, j, row) ==
    IF Len(row) > Len(s2) THEN row
    ELSE LevCells(s1, s2, i, prev, j + 1,
                  Append(row, IF s1[i] = s2[j]
                              THEN prev[j]
                              ELSE 1 + Min3(prev[j + 1], row[j], prev[j])))

RECURSIVE LevRows(_, _, _, _)
LevRows(s1, s2, i, prev) ==
    IF Len(prev) > 0 /\ i > Len(s1) THEN prev[Len(s2) + 1]
    ELSE LevRows(s1, s2, i + 1, LevCells(s1, s2, i, prev, 1, <<i>>))

levenshteinDistance(s1, s2) ==
    LevRows(s1, s2, 1, [j \in 1..(Len(s2) + 1) |-> j - 1])

\* 1.0 - distance / maxLength, as the fraction (maxLength - distance) / maxLength
FuzzyScore(distance, maxLength) ==
    IF maxLength = 0 THEN <<1, 1>> ELSE <<maxLength - distance, maxLength>>

\* a similarity that always falls back on the edit distance
SimilarityOfLoweredFuzzyAlways(lower1, lower2, cfg) ==
    IF lower1 = lower2 THEN <<19, 20>>
    ELSE FuzzyScore(levenshteinDistance(lower1, lower2), Max(Len(lower1), Len(lower2)))

\* calculateSimilarity from the case-insensitive comparison on
SimilarityOfLowered(lower1, lower2, cfg) ==
    IF lower1 = lower2 THEN <<19, 20>>
    ELSE IF ~cfg.enableFuzzyMatching THEN <<0, 1>>
    ELSE FuzzyScore(levenshteinDistance(lower1, lower2), Max(Len(lower1), Len(lower2)))

calculateSimilarity(text1, text2, cfg) ==
    IF text1 = <<>> /\ text2 = <<>> THEN <<1, 1>>
    ELSE IF text1 = <<>> \/ text2 = <<>> THEN <<0, 1>>
    ELSE IF text1 = text2 THEN <<1, 1>>
    ELSE SimilarityOfLowered(LowerText(text1), LowerText(text2), cfg)

NoBest == [sim |-> <<0, 1>>, prevStart |-> 0, currStart |-> 0, length |-> 0]

\* a search that keeps the latest qualifying triple
BetterOverlapLatest(similarity, best, cfg) ==
    SimGE(similarity, cfg.overlapThreshold)

\* if (similarity > bestSimilarity && similarity >= config_.overlapThreshold)
BetterOverlap(similarity, best, cfg) ==
    SimGT(similarity, best.sim) /\ SimGE(similarity, cfg.overlapThreshold)

\* the body of the innermost loop: keep the triple if it is better
UpdateBest(similarity, best, cfg, prevStart, currStart, length) ==
    IF BetterOverlap(similarity, best, cfg)
    THEN [sim |-> similarity, prevStart |-> prevStart, currStart |-> currStart,
          length |-> length]
    ELSE best

RECURSIVE ScanLength(_, _, _, _, _, _, _, _)
ScanLength(prevWords, currWords, cfg, prevStart, currStart, length, maxLength, best) ==
    IF best.length >= 0 /\ length > maxLength THEN best
    ELSE ScanLength(prevWords, currWords, cfg, prevStart, currStart, length + 1, maxLength,
                    UpdateBest(calculateSimilarity(
                                   joinWords(prevWords, prevStart, prevStart + length),
                                   joinWords(currWords, currStart, currStart + length), cfg),
                               best, cfg, prevStart, currStart, length))

RECURSIVE ScanCurr(_, _, _, _, _, _, _)
ScanCurr(prevWords, currWords, cfg, windowSize, prevStart, currStart, best) ==
    IF best.length >= 0 /\ currStart > Len(currWords) - 1 THEN best
    ELSE ScanCurr(prevWords, currWords, cfg, windowSize, prevStart, currStart + 1,
                  ScanLength(prevWords, currWords, cfg, prevStart, currStart, 1,
                             Min(Min(Len(prevWords) - prevStart, Len(currWords) - currStart),
                                 windowSize),
                             best))

RECURSIVE ScanPrev(_, _, _, _, _, _)
ScanPrev(prevWords, currWords, cfg, windowSize, prevStart, best) ==
    IF best.length >= 0 /\ prevStart > Len(prevWords) - 1 THEN best
    ELSE ScanPrev(prevWords, currWords, cfg, windowSize, prevStart + 1,
                  ScanCurr(prevWords, currWords, cfg, windowSize, prevStart, 0, best))

NoOverlap ==
    [hasOverlap |-> FALSE, prevWordStart |-> 0, prevWordEnd |-> 0,
     currWordStart |-> 0, currWordEnd |-> 0, similarity |-> <<0, 1>>]

\* std::min(config_.slidingWindowSize, std::min(prevWords.size(), currWords.size()))
WindowSize(prevWords, currWords, cfg) ==
    Min(cfg.slidingWindowSize, Min(Len(prevWords), Len(currWords)))

\* prevWords.size() >= windowSize ? prevWords.size() - windowSize : 0
FirstPrevStart(prevWords, windowSize) ==
    IF Len(prevWords) >= windowSize THEN Len(prevWords) - windowSize ELSE 0

\* if (bestSimilarity >= config_.overlapThreshold) fill in the OverlapInfo
OverlapOfBest(best, cfg) ==
    IF SimGE(best.sim, cfg.overlapThreshold)
    THEN [hasOverlap |-> TRUE,
          prevWordStart |-> best.prevStart,
          prevWordEnd   |-> best.prevStart + best.length,
          currWordStart |-> best.currStart,
          currWordEnd   |-> best.currStart + best.length,
          similarity    |-> best.sim]
    ELSE NoOverlap

\* detectOverlap on the two word sequences
DetectInWords(prevWords, currWords, cfg) ==
    IF prevWords = <<>> \/ currWords = <<>> THEN NoOverlap
    ELSE OverlapOfBest(
             ScanPrev(prevWords, currWords, cfg, WindowSize(prevWords, currWords, cfg),
                      FirstPrevStart(prevWords, WindowSize(prevWords, currWords, cfg)),
                      NoBest),
             cfg)

detectOverlap(previous, current, cfg) ==
    DetectInWords(splitWords(previous.text), splitWords(current.text), cfg)

\* removeOverlap, overlap at word 0: drop the leading words, shift startTime
RemoveFromStart(current, overlap, words, cleanedText) ==
    IF cleanedText = <<>>
    THEN Segment(<<>>, current.startTime, current.endTime, current.confidence)
    ELSE Segment(cleanedText,
                 current.startTime +
                     ((current.endTime - current.startTime) * overlap.currWordEnd) \div Len(words),
                 current.endTime, current.confidence)

\* a splice that joins the two remainders without a separator
RemoveFromMiddleNoSpace(current, beforeOverlap, afterOverlap) ==
    Segment(beforeOverlap \o afterOverlap,
            current.startTime, current.endTime, current.confidence)

\* removeOverlap, overlap later: splice the span out
RemoveFromMiddle(current, beforeOverlap, afterOverlap) ==
    Segment(IF beforeOverlap # <<>> /\ afterOverlap # <<>>
            THEN beforeOverlap \o <<32>> \o afterOverlap
            ELSE IF afterOverlap # <<>> THEN afterOverlap
            ELSE beforeOverlap,
            current.startTime, current.endTime, current.confidence)

RemoveInWords(current, overlap, words) ==
    IF overlap.currWordStart = 0
    THEN RemoveFromStart(current, overlap, words,
                         joinWords(words, overlap.currWordEnd, SIZE_MAX))
    ELSE RemoveFromMiddle(current, joinWords(words, 0, overlap.currWordStart),
                          joinWords(words, overlap.currWordEnd, SIZE_MAX))

removeOverlap(current, overlap) ==
    IF ~overlap.hasOverlap THEN current
    ELSE RemoveInWords(current, overlap, splitWords(current.text))

\* a time test that counts segments touching at an endpoint as overlapping
hasTemporalOverlapTouching(seg1, seg2) ==
    ~(seg1.endTime < seg2.startTime \/ seg2.endTime < seg1.startTime)

hasTemporalOverlap(seg1, seg2) ==
    ~(seg1.endTime <= seg2.startTime \/ seg2.endTime <= seg1.startTime)

\* combinedScore > 0.0, scaled by 100 * 100; timeScore = 0.1
resolveConflict(previous, current, cfg) ==
    LET confidenceScore == current.confidence - previous.confidence
    IN  cfg.confidenceWeight * confidenceScore + (100 - cfg.confidenceWeight) * 10 > 0

RECURSIVE TrimAgainst(_, _, _, _)

\* a loop body that leaves the current segment whole when it wins the conflict
TrimWithWinnerKept(window, i, processedSegment, cfg, overlap) ==
    IF overlap.hasOverlap
    THEN IF resolveConflict(window[i], processedSegment, cfg)
         THEN processedSegment
         ELSE removeOverlap(processedSegment, overlap)
    ELSE TrimAgainst(window, i - 1, processedSegment, cfg)

\* a loop body that trims and goes on to the older entries instead of breaking
TrimWithNoBreak(window, i, processedSegment, cfg, overlap) ==
    IF overlap.hasOverlap
    THEN TrimAgainst(window, i - 1, removeOverlap(processedSegment, overlap), cfg)
    ELSE TrimAgainst(window, i - 1, processedSegment, cfg)

\* the loop body once the overlap with window[i] is known: trim and break, or go on
TrimWith(window, i, processedSegment, cfg, overlap) ==
    IF overlap.hasOverlap
    THEN IF resolveConflict(window[i], processedSegment, cfg)
         THEN removeOverlap(processedSegment, overlap)
         ELSE removeOverlap(processedSegment, overlap)
    ELSE TrimAgainst(window, i - 1, processedSegment, cfg)

\* for (it = rbegin; it != rend; ++it): the first entry, newest first, that overlaps in
\* time and in content trims the segment; then break
TrimAgainst(window, i, processedSegment, cfg) ==
    IF i < 1 THEN processedSegment
    ELSE IF ~hasTemporalOverlap(window[i], processedSegment)
         THEN TrimAgainst(window, i - 1, processedSegment, cfg)
         ELSE TrimWith(window, i, processedSegment, cfg,
                       detectOverlap(window[i], processedSegment, cfg))

\* push_back, then pop_front once if the size exceeds maxContextSegments
PushRecent(window, seg, cfg) ==
    LET pushed == Append(window, seg)
    IN  IF Len(pushed) > cfg.maxContextSegments THEN Tail(pushed) ELSE pushed

\* processSegment: the returned segment and the window it leaves
\* a processSegment that adds the processed segment to the recent segments even when empty
KeepAlways(processedSegment, window, cfg) ==
    [out    |-> processedSegment,
     window |-> PushRecent(window, processedSegment, cfg)]

\* lines 59-71: add to recent segments if not empty, return the processed segment
KeepIfNotEmpty(processedSegment, window, cfg) ==
    [out    |-> processedSegment,
     window |-> IF processedSegment.text # <<>>
                THEN PushRecent(window, processedSegment, cfg)
                ELSE window]

\* a processSegment that records every segment it is given, the empty ones included
processSegmentRecordsEmpty(newSegment, window, cfg) ==
    IF newSegment.text = <<>>
    THEN [out |-> newSegment, window |-> PushRecent(window, newSegment, cfg)]
    ELSE KeepIfNotEmpty(TrimAgainst(window, Len(window), newSegment, cfg), window, cfg)

\* TranscriptDeduplicator::processSegment
processSegment(newSegment, window, cfg) ==
    IF newSegment.text = <<>>
    THEN [out |-> newSegment, window |-> window]
    ELSE KeepIfNotEmpty(TrimAgainst(window, Len(window), newSegment, cfg), window, cfg)

(***************************************************************************)
(* TranscriptDeduplicator as a state machine: processSegment, clearContext *)
(* and setConfig called in any order on one deduplicator.                  *)
(***************************************************************************)
MaxCalls == 3

Window4Config  == [DefaultDedupConfig EXCEPT !.slidingWindowSize = 4]
SmallNoFuzzyConfig ==
    [DefaultDedupConfig EXCEPT !.maxContextSegments = 2, !.enableFuzzyMatching = FALSE]
DedupConfigs == {DefaultDedupConfig, Window4Config, SmallNoFuzzyConfig}

DedupInputs ==
    { Segment(TheQuickBrownFox, 0, 2000, 90),
      Segment(BrownFoxJumps, 1500, 3000, 80),
      Segment(TheQuick, 0, 2000, 90),
      Segment(Fox, 0, 2000, 90),
      Segment(HelloWorldUpper, 2000, 4000, 90),
      Segment(HelloWorldLower, 3000, 5000, 50),
      Segment(<<>>, 0, 1000, 90) }

DedupConstructed ==
    /\ recentSegments_ = <<>>
    /\ dedupLog = <<>>
    /\ dedupCalls = 0

\* the effect of a processSegment call that returned r.out and left r.window
DedupReturned(newSegment, r) ==
    /\ recentSegments_' = r.window
    /\ dedupLog' = Append(dedupLog, [in |-> newSegment, out |-> r.out, cfg |-> config_])

DedupProcessSegment(newSegment) ==
    /\ dedupCalls < MaxCalls
    /\ DedupReturned(newSegment, processSegment(newSegment, recentSegments_, config_))
    /\ dedupCalls' = dedupCalls + 1
    /\ UNCHANGED config_

DedupClearContext ==
    /\ recentSegments_' = <<>>
    /\ dedupLog' = <<>>
    /\ UNCHANGED <<config_, dedupCalls>>

DedupSetConfig(config) ==
    /\ config_' = config
    /\ UNCHANGED <<recentSegments_, dedupLog, dedupCalls>>

\* The same deduplicator called with short segments: two with the same text that touch
\* at 2 s, one that overlaps both in time, and one with empty text.
ResolveInputs ==
    { Segment(GoOn, 0, 2000, 90),
      Segment(GoOn, 2000, 4000, 90),
      Segment(OnWeGo, 1000, 3000, 50),
      Segment(<<>>, 0, 1000, 90) }

ResolveConfigs == {DefaultDedupConfig, SmallNoFuzzyConfig}

(***************************************************************************)
(* AudioBuffer: a ring of size_ floats guarded by one mutex; every call    *)
(* runs under lock_guard, so each call is one step.                        *)
(* The samples offered to write are numbered consecutively (the k-th       *)
(* sample ever offered has value k), which makes every sample distinct.    *)
(***************************************************************************)
RingSize == 3           \* size_ (the constructor's sizeInSamples)
MaxWrite == 4           \* the largest numSamples passed to write or read
MaxRingSamples == 7     \* writes stop once this many samples have been offered

size_ == RingSize

nextIndex(index) == (index + 1) % size_

\* the data array of a write: numSamples samples following the `first` already offered
WriteData(first, numSamples) == [i \in 1..numSamples |-> first + i]

\* a write that does not clamp to the free space
SamplesToWriteUnclamped(numSamples, freeSamples) == numSamples

\* a write that always stores at least one sample
SamplesToWriteAtLeastOne(numSamples, freeSamples) == Max(1, Min(numSamples, freeSamples))

\* std::min(numSamples, freeSamples)
SamplesToWrite(numSamples, freeSamples) == Min(numSamples, freeSamples)

RECURSIVE WriteLoopNewest(_, _, _, _, _)
\* a write that keeps the newest samples of the input instead of the first ones
WriteLoopNewest(buf, widx, data, i, samplesToWrite) ==
    IF i >= samplesToWrite
    THEN [buffer |-> buf, writeIndex |-> widx, samplesWritten |-> i]
    ELSE WriteLoopNewest([buf EXCEPT ![widx] = data[Len(data) - samplesToWrite + i + 1]],
                         nextIndex(widx), data, i + 1, samplesToWrite)

RECURSIVE WriteLoop(_, _, _, _, _)
\* for (i = 0; i < samplesToWrite; i++) { buffer_[writeIndex_] = data[i]; ... }
WriteLoop(buf, widx, data, i, samplesToWrite) ==
    IF i >= samplesToWrite
    THEN [buffer |-> buf, writeIndex |-> widx, samplesWritten |-> i]
    ELSE WriteLoop([buf EXCEPT ![widx] = data[i + 1]], nextIndex(widx), data, i + 1,
                   samplesToWrite)

\* a read that does not clamp to the held count
SamplesToReadUnclamped(numSamples, available) == numSamples

\* std::min(numSamples, availableSamples_)
SamplesToRead(numSamples, available) == Min(numSamples, available)

RECURSIVE ReadLoopSkewed(_, _, _, _, _)
\* a read that advances the cursor before it copies the sample
ReadLoopSkewed(buf, ridx, out, i, samplesToRead) ==
    IF i >= samplesToRead
    THEN [data |-> out, readIndex |-> ridx, samplesRead |-> i]
    ELSE ReadLoopSkewed(buf, nextIndex(ridx), Append(out, buf[nextIndex(ridx)]), i + 1,
                        samplesToRead)

RECURSIVE ReadLoop(_, _, _, _, _)
\* for (i = 0; i < samplesToRead; i++) { data[i] = buffer_[readIndex_]; ... }
ReadLoop(buf, ridx, out, i, samplesToRead) ==
    IF i >= samplesToRead
    THEN [data |-> out, readIndex |-> ridx, samplesRead |-> i]
    ELSE ReadLoop(buf, nextIndex(ridx), Append(out, buf[ridx]), i + 1, samplesToRead)

getAvailableSamples == availableSamples_
getFreeSamples == size_ - availableSamples_
getSize == size_

\* the unread samples, oldest first
RingContents ==
    [k \in 1..availableSamples_ |-> buffer_[(readIndex_ + k - 1) % size_]]

RingOffered == IF ringLast.op = "none" THEN 0 ELSE ringLast.offered

\* a thread that is in no AudioBuffer call; the writer has offered `offered` samples so far
WriterIdle(offered) ==
    [pc |-> "idle", numSamples |-> 0, first |-> offered, offered |-> offered, i |-> 0,
     samplesToWrite |-> 0, samplesWritten |-> 0, ret |-> 0]
ReaderIdle ==
    [pc |-> "idle", op |-> "none", numSamples |-> 0, i |-> 0, samplesToRead |-> 0,
     samplesRead |-> 0, data |-> <<>>, ret |-> 0]

RingConstructed ==
    /\ mutex_ = "free"
    /\ ringWriter = WriterIdle(0)
    /\ ringReader = ReaderIdle
    /\ buffer_ = [i \in 0..(size_ - 1) |-> 0]
    /\ writeIndex_ = 0
    /\ readIndex_ = 0
    /\ availableSamples_ = 0
    /\ ringAccepted = <<>>
    /\ ringReturned = <<>>
    /\ ringLast = [op |-> "none", offered |-> 0]

\* size_t AudioBuffer::write(const float *data, size_t numSamples)
RingWrite(isNull, numSamples) ==
    LET first == ringLast.offered
        data  == WriteData(first, numSamples)
    IN  /\ first + numSamples <= MaxRingSamples
        /\ IF isNull \/ numSamples = 0
           THEN /\ ringLast' = [op |-> "write", offered |-> first, isNull |-> isNull,
                                numSamples |-> numSamples, free |-> getFreeSamples,
                                first |-> first, before |-> RingContents, ret |-> 0]
                /\ UNCHANGED <<buffer_, writeIndex_, readIndex_, availableSamples_,
                               ringAccepted, ringReturned>>
           ELSE LET freeSamples == size_ - availableSamples_
                    w == WriteLoop(buffer_, writeIndex_, data, 0,
                                   SamplesToWrite(numSamples, freeSamples))
                IN  /\ buffer_' = w.buffer
                    /\ writeIndex_' = w.writeIndex
                    /\ availableSamples_' = availableSamples_ + w.samplesWritten
                    /\ ringAccepted' = ringAccepted \o SubSeq(data, 1, w.samplesWritten)
                    /\ ringLast' = [op |-> "write", offered |-> first + numSamples,
                                    isNull |-> FALSE, numSamples |-> numSamples,
                                    free |-> freeSamples, first |-> first,
                                    before |-> RingContents, ret |-> w.samplesWritten]
                    /\ UNCHANGED <<readIndex_, ringReturned>>

\* size_t AudioBuffer::read(float *data, size_t numSamples)
RingRead(isNull, numSamples) ==
    IF isNull \/ numSamples = 0
    THEN /\ ringLast' = [op |-> "read", offered |-> ringLast.offered, isNull |-> isNull,
                         numSamples |-> numSamples, free |-> getFreeSamples,
                         first |-> ringLast.offered, before |-> RingContents, ret |-> 0]
         /\ UNCHANGED <<buffer_, writeIndex_, readIndex_, availableSamples_,
                        ringAccepted, ringReturned>>
    ELSE LET r == ReadLoop(buffer_, readIndex_, <<>>, 0,
                           SamplesToRead(numSamples, availableSamples_))
         IN  /\ readIndex_' = r.readIndex
             /\ availableSamples_' = availableSamples_ - r.samplesRead
             /\ ringReturned' = ringReturned \o r.data
             /\ ringLast' = [op |-> "read", offered |-> ringLast.offered, isNull |-> FALSE,
                             numSamples |-> numSamples, free |-> getFreeSamples,
                             first |-> ringLast.offered, before |-> RingContents,
                             ret |-> r.samplesRead]
             /\ UNCHANGED <<buffer_, writeIndex_, ringAccepted>>

\* void AudioBuffer::clear()
RingClear ==
    /\ writeIndex_' = 0
    /\ readIndex_' = 0
    /\ availableSamples_' = 0
    /\ ringAccepted' = <<>>
    /\ ringReturned' = <<>>
    /\ ringLast' = [op |-> "clear", offered |-> ringLast.offered, isNull |-> FALSE,
                    numSamples |-> 0, free |-> getFreeSamples, first |-> ringLast.offered,
                    before |-> RingContents, ret |-> 0]
    /\ UNCHANGED buffer_

(***************************************************************************)
(* AudioBuffer under two threads: one calls write, the other calls read,   *)
(* clear and getAvailableSamples.  Each call is taken statement by         *)
(* statement: the lock_guard's lock, the locals, one loop iteration per    *)
(* step, the update of availableSamples_, and the unlock at return.        *)
(***************************************************************************)
ringShared == <<buffer_, writeIndex_, readIndex_, availableSamples_, ringAccepted,
                ringReturned>>

\* write(data, numSamples) is called: lines 11-14 return 0 at once for a zero length
ThreadWrite(numSamples) ==
    /\ ringWriter.pc = "idle"
    /\ ringWriter.offered + numSamples <= MaxRingSamples
    /\ ringWriter' = IF numSamples = 0
                     THEN WriterIdle(ringWriter.offered)
                     ELSE [WriterIdle(ringWriter.offered + numSamples) EXCEPT
                              !.pc = "lock", !.numSamples = numSamples,
                              !.first = ringWriter.offered]
    /\ UNCHANGED <<ringShared, ringLast, mutex_, ringReader>>

\* a lock that is taken without waiting for its holder
WriterLockNoWait ==
    /\ ringWriter.pc = "lock"
    /\ mutex_' = "writer"
    /\ ringWriter' = [ringWriter EXCEPT !.pc = "begin"]
    /\ UNCHANGED <<ringShared, ringLast, ringReader>>

\* std::lock_guard<std::mutex> lock(mutex_), line 16
WriterLock ==
    /\ ringWriter.pc = "lock"
    /\ mutex_ = "free"
    /\ mutex_' = "writer"
    /\ ringWriter' = [ringWriter EXCEPT !.pc = "begin"]
    /\ UNCHANGED <<ringShared, ringLast, ringReader>>

\* lines 18-20: samplesWritten, freeSamples, samplesToWrite
WriterBegin ==
    /\ ringWriter.pc = "begin"
    /\ ringWriter' = [ringWriter EXCEPT
                         !.pc = "loop", !.i = 0, !.samplesWritten = 0,
                         !.samplesToWrite = SamplesToWrite(ringWriter.numSamples,
                                                           size_ - availableSamples_)]
    /\ UNCHANGED <<ringShared, ringLast, mutex_, ringReader>>

\* one iteration of the loop of lines 22-27
WriterStore ==
    /\ ringWriter.pc = "loop"
    /\ ringWriter.i < ringWriter.samplesToWrite
    /\ buffer_' = [buffer_ EXCEPT ![writeIndex_] =
                      WriteData(ringWriter.first, ringWriter.numSamples)[ringWriter.i + 1]]
    /\ writeIndex_' = nextIndex(writeIndex_)
    /\ ringWriter' = [ringWriter EXCEPT !.i = @ + 1, !.samplesWritten = @ + 1]
    /\ UNCHANGED <<readIndex_, availableSamples_, ringAccepted, ringReturned, ringLast,
                   mutex_, ringReader>>

\* the loop ends; availableSamples_ += samplesWritten, line 29
WriterCommit ==
    /\ ringWriter.pc = "loop"
    /\ ringWriter.i >= ringWriter.samplesToWrite
    /\ availableSamples_' = availableSamples_ + ringWriter.samplesWritten
    /\ ringAccepted' = ringAccepted \o
           SubSeq(WriteData(ringWriter.first, ringWriter.numSamples), 1,
                  ringWriter.samplesWritten)
    /\ ringWriter' = [ringWriter EXCEPT !.pc = "unlock", !.ret = ringWriter.samplesWritten]
    /\ UNCHANGED <<buffer_, writeIndex_, readIndex_, ringReturned, ringLast, mutex_,
                   ringReader>>

\* return samplesWritten, line 31: the lock_guard unlocks
WriterUnlock ==
    /\ ringWriter.pc = "unlock"
    /\ mutex_' = "free"
    /\ ringWriter' = WriterIdle(ringWriter.offered)
    /\ UNCHANGED <<ringShared, ringLast, ringReader>>

\* read(data, numSamples) is called: lines 36-39 return 0 at once for a zero length
ThreadRead(numSamples) ==
    /\ ringReader.pc = "idle"
    /\ ringReader' = IF numSamples = 0
                     THEN ReaderIdle
                     ELSE [ReaderIdle EXCEPT !.pc = "lock", !.op = "read",
                                             !.numSamples = numSamples]
    /\ UNCHANGED <<ringShared, ringLast, mutex_, ringWriter>>

\* clear() is called
ThreadClear ==
    /\ ringReader.pc = "idle"
    /\ ringReader' = [ReaderIdle EXCEPT !.pc = "lock", !.op = "clear"]
    /\ UNCHANGED <<ringShared, ringLast, mutex_, ringWriter>>

\* getAvailableSamples() is called
ThreadGetAvailableSamples ==
    /\ ringReader.pc = "idle"
    /\ ringReader' = [ReaderIdle EXCEPT !.pc = "lock", !.op = "getAvailableSamples"]
    /\ UNCHANGED <<ringShared, ringLast, mutex_, ringWriter>>

\* std::lock_guard<std::mutex> lock(mutex_), lines 41, 60 and 84
ReaderLock ==
    /\ ringReader.pc = "lock"
    /\ mutex_ = "free"
    /\ mutex_' = "reader"
    /\ ringReader' = [ringReader EXCEPT !.pc = "begin"]
    /\ UNCHANGED <<ringShared, ringLast, ringWriter>>

\* lines 43-44: samplesRead, samplesToRead
ReadBegin ==
    /\ ringReader.pc = "begin"
    /\ ringReader.op = "read"
    /\ ringReader' = [ringReader EXCEPT
                         !.pc = "loop", !.i = 0, !.samplesRead = 0,
                         !.samplesToRead = SamplesToRead(ringReader.numSamples,
                                                         availableSamples_)]
    /\ UNCHANGED <<ringShared, ringLast, mutex_, ringWriter>>

\* one iteration of the loop of lines 46-51
ReadCopy ==
    /\ ringReader.pc = "loop"
    /\ ringReader.i < ringReader.samplesToRead
    /\ readIndex_' = nextIndex(readIndex_)
    /\ ringReader' = [ringReader EXCEPT !.i = @ + 1, !.samplesRead = @ + 1,
                                        !.data = Append(@, buffer_[readIndex_])]
    /\ UNCHANGED <<buffer_, writeIndex_, availableSamples_, ringAccepted, ringReturned,
                   ringLast, mutex_, ringWriter>>

\* the loop ends; availableSamples_ -= samplesRead, line 53
ReadCommit ==
    /\ ringReader.pc = "loop"
    /\ ringReader.i >= ringReader.samplesToRead
    /\ availableSamples_' = availableSamples_ - ringReader.samplesRead
    /\ ringReturned' = ringReturned \o ringReader.data
    /\ ringReader' = [ringReader EXCEPT !.pc = "unlock", !.ret = ringReader.samplesRead]
    /\ UNCHANGED <<buffer_, writeIndex_, readIndex_, ringAccepted, ringLast, mutex_,
                   ringWriter>>

\* writeIndex_ = 0, line 85
ClearWriteIndex ==
    /\ ringReader.pc = "begin"
    /\ ringReader.op = "clear"
    /\ writeIndex_' = 0
    /\ ringReader' = [ringReader EXCEPT !.pc = "clearReadIndex"]
    /\ UNCHANGED <<buffer_, readIndex_, availableSamples_, ringAccepted, ringReturned,
                   ringLast, mutex_, ringWriter>>

\* readIndex_ = 0, line 86
ClearReadIndex ==
    /\ ringReader.pc = "clearReadIndex"
    /\ readIndex_' = 0
    /\ ringReader' = [ringReader EXCEPT !.pc = "clearAvailable"]
    /\ UNCHANGED <<buffer_, writeIndex_, availableSamples_, ringAccepted, ringReturned,
                   ringLast, mutex_, ringWriter>>

\* availableSamples_ = 0, line 87
ClearAvailable ==
    /\ ringReader.pc = "clearAvailable"
    /\ availableSamples_' = 0
    /\ ringAccepted' = <<>>
    /\ ringReturned' = <<>>
    /\ ringReader' = [ringReader EXCEPT !.pc = "unlock"]
    /\ UNCHANGED <<buffer_, writeIndex_, readIndex_, ringLast, mutex_, ringWriter>>

\* return availableSamples_, line 61
GetAvailableLoad ==
    /\ ringReader.pc = "begin"
    /\ ringReader.op = "getAvailableSamples"
    /\ ringReader' = [ringReader EXCEPT !.pc = "unlock", !.ret = availableSamples_]
    /\ UNCHANGED <<ringShared, ringLast, mutex_, ringWriter>>

\* the call returns: the lock_guard unlocks
ReaderUnlock ==
    /\ ringReader.pc = "unlock"
    /\ mutex_' = "free"
    /\ ringReader' = ReaderIdle
    /\ UNCHANGED <<ringShared, ringLast, ringWriter>>

(***************************************************************************)
(* WhisperTranscriber: text side of a flush                                *)
(***************************************************************************)
BUFFER_SIZE_SECONDS == 10
MIN_PROCESS_SIZE_SECONDS == 2
MAX_RECENT_RESULTS == 20

\* blocks of 4000 samples per second of 16 kHz audio
BlocksPerSecond == 16000 \div 4000
MsPerBlock == 1000 \div BlocksPerSecond

minSamples == MIN_PROCESS_SIZE_SECONDS * BlocksPerSecond
maxSamples == BUFFER_SIZE_SECONDS * BlocksPerSecond
\* OVERLAP_SECONDS * 16000, "last 0.5 seconds"
overlapSamples == BlocksPerSecond \div 2

Result(t, start, end, conf) ==
    [text |-> t, startTime |-> start, endTime |-> end, confidence |-> conf]

RECURSIVE DropLeadingSpace(_)
DropLeadingSpace(t) ==
    IF t # <<>> /\ IsSpace(Head(t)) THEN DropLeadingSpace(Tail(t)) ELSE t

RECURSIVE DropTrailingSpace(_)
DropTrailingSpace(t) ==
    IF t # <<>> /\ IsSpace(t[Len(t)]) THEN DropTrailingSpace(SubSeq(t, 1, Len(t) - 1)) ELSE t

\* what the recognition engine hands back for one call
EngineFailure == [success |-> FALSE, text |-> <<>>, start_time_ms |-> 0, end_time_ms |-> 0,
                  confidence |-> 0]
EngineText(t, t0, t1) ==
    [success |-> TRUE, text |-> t, start_time_ms |-> t0, end_time_ms |-> t1, confidence |-> 90]

extractResults(bridge_result) ==
    IF bridge_result.text # <<>>
    THEN LET trimmed == DropTrailingSpace(DropLeadingSpace(bridge_result.text))
         IN  IF trimmed # <<>>
             THEN <<Result(trimmed, bridge_result.start_time_ms, bridge_result.end_time_ms,
                           bridge_result.confidence)>>
             ELSE <<>>
    ELSE <<>>

\* transcribe(audioData) given what the engine returns for it
transcribe(audioData, isInitialized, bridge_result) ==
    IF ~isInitialized \/ audioData = <<>> THEN <<>>
    ELSE IF ~bridge_result.success THEN <<>>
    ELSE extractResults(bridge_result)

\* newText.erase(0, newText.find_first_not_of(" \t\n\r"))
RECURSIVE DropLeadingBlank(_)
DropLeadingBlank(t) ==
    IF t # <<>> /\ Head(t) \in {32, 9, 10, 13} THEN DropLeadingBlank(Tail(t)) ELSE t

\* a fix case 1 that adds the comma without removing the period
StitchCase1KeepsPeriod(lastText, newText) ==
    IF lastText # <<>> /\ newText # <<>> /\ lastText[Len(lastText)] = 46 /\ IsLower(newText[1])
    THEN IF Len(lastText) > 1
         THEN Append(lastText, 44)
         ELSE lastText
    ELSE lastText

\* fix case 1: the previous text ends with a period and the new one starts lowercase
StitchCase1(lastText, newText) ==
    IF lastText # <<>> /\ newText # <<>> /\ lastText[Len(lastText)] = 46 /\ IsLower(newText[1])
    THEN IF Len(lastText) > 1
         THEN Append(SubSeq(lastText, 1, Len(lastText) - 1), 44)
         ELSE lastText
    ELSE lastText

\* a fix case 2 that does not look at the first letter of the new text
StitchCase2AnyStart(lastText, newText) ==
    IF lastText # <<>> /\ newText # <<>> /\ lastText[Len(lastText)] \notin {46, 33, 63}
    THEN Append(lastText, 46)
    ELSE lastText

\* fix case 2: the previous text ends without . ! ? and the new one starts uppercase
StitchCase2(lastText, newText) ==
    IF lastText # <<>> /\ newText # <<>> /\ lastText[Len(lastText)] \notin {46, 33, 63}
       /\ IsUpper(newText[1])
    THEN Append(lastText, 46)
    ELSE lastText

\* a fix case 3 that leaves the white space behind the prefix it strips
StitchCase3KeepsBlank(lastText, newText) ==
    IF Len(lastText) > 10 /\ Len(newText) > 10
    THEN LET lastEnd == SubSeq(lastText, Len(lastText) - 9, Len(lastText))
         IN  IF SubSeq(newText, 1, 10) = lastEnd
             THEN SubSeq(newText, 11, Len(newText))
             ELSE newText
    ELSE newText

\* fix case 3: the new text starts with the last 10 characters of the previous text
StitchCase3(lastText, newText) ==
    IF Len(lastText) > 10 /\ Len(newText) > 10
    THEN LET lastEnd == SubSeq(lastText, Len(lastText) - 9, Len(lastText))
         IN  IF SubSeq(newText, 1, 10) = lastEnd
             THEN DropLeadingBlank(SubSeq(newText, 11, Len(newText)))
             ELSE newText
    ELSE newText

RECURSIVE PushResultsNoErase(_, _, _)
\* a push loop that never erases the oldest result
PushResultsNoErase(recent, results, i) ==
    IF i > Len(results) THEN recent
    ELSE PushResultsNoErase(Append(recent, results[i]), results, i + 1)

RECURSIVE PushResults(_, _, _)
\* push_back each result; erase(begin()) while above MAX_RECENT_RESULTS
PushResults(recent, results, i) ==
    IF i > Len(results) THEN recent
    ELSE LET pushed == Append(recent, results[i])
         IN  PushResults(IF Len(pushed) > MAX_RECENT_RESULTS THEN Tail(pushed) ELSE pushed,
                         results, i + 1)

\* fixPunctuation: the corrected results and the stitch history it leaves
fixPunctuation(newResults, recent) ==
    IF newResults = <<>> THEN [results |-> newResults, recent |-> recent]
    ELSE IF recent = <<>>
         THEN [results |-> newResults, recent |-> PushResults(recent, newResults, 1)]
         ELSE LET newText0  == newResults[1].text
                  lastText1 == StitchCase1(recent[Len(recent)].text, newText0)
                  lastText2 == StitchCase2(lastText1, newText0)
                  newText3  == StitchCase3(lastText2, newText0)
                  corrected == [newResults EXCEPT ![1].text = newText3]
                  recent2   == [recent EXCEPT ![Len(recent)].text = lastText2]
              IN  [results |-> corrected, recent |-> PushResults(recent2, corrected, 1)]

(***************************************************************************)
(* fixPunctuation as a state machine on the stitch history: calls with any *)
(* results, and the clear that stopRealTimeProcessing makes.               *)
(***************************************************************************)
MaxStitchCalls == 3

Period == <<46>>  \* "."

StitchInputs ==
    { <<>>,
      <<Result(Period, 0, 2000, 90)>>,
      <<Result(HelloWorldDot, 0, 2000, 90)>>,
      <<Result(HelloWorldAgain, 0, 2000, 90)>>,
      <<Result(HelloWorldUpper, 0, 2000, 90)>>,
      <<Result(ReallyQ, 0, 2000, 90)>>,
      <<Result(StopBang, 0, 2000, 90)>>,
      <<Result(GoodNight, 0, 2000, 90)>>,
      <<Result(SayGoodNight, 0, 2000, 90)>>,
      <<Result(GoodNightMoon, 0, 2000, 90)>>,
      <<Result(HelloWorldAgain, 0, 2000, 90), Result(HelloWorldUpper, 2000, 4000, 90)>> }

\* the effect of a fixPunctuation call that returned f.results and left f.recent
StitchReturned(newResults, f) ==
    /\ recentResults_' = f.recent
    /\ stitchLog' = Append(stitchLog, [before |-> recentResults_, in |-> newResults,
                                       out |-> f.results])

FixPunctuationCall(newResults) ==
    /\ Len(stitchLog) < MaxStitchCalls
    /\ StitchReturned(newResults, fixPunctuation(newResults, recentResults_))

\* recentResults_.clear()
StitchClear ==
    /\ recentResults_' = <<>>
    /\ stitchLog' = <<>>

\* the pipeline's variables that a fixPunctuation call does not touch
stitchFrame == <<initialized_, wtConfig, audioQueue_, queueMutex_, shouldStop_,
                 resultCallback_, joinable, audioBuffer_, bufferStartTime_, overlapBuffer_,
                 workerPc, workerRet, workerChunk, processing, ctlPc, captureBase,
                 captureBlocks, chunksAdded, session, dequeued, flushLog, preStopChunks,
                 stopObserved, exitLen, emittedBefore, acceptedChunks>>

RECURSIVE DedupEach(_, _, _, _, _)

\* the loop body once processSegment returned r: keep a non-empty segment, go on
DedupKeep(newResults, i, cfg, kept, r) ==
    DedupEach(newResults, i + 1, r.window, cfg,
              IF r.out.text # <<>> THEN Append(kept, r.out) ELSE kept)

\* for (result : newResults): processSegment, keep the non-empty ones
DedupEach(newResults, i, window, cfg, kept) ==
    IF i > Len(newResults) THEN [results |-> kept, window |-> window]
    ELSE DedupKeep(newResults, i, cfg, kept, processSegment(newResults[i], window, cfg))

\* the outcome of a flush's text processing: f from fixPunctuation, and the window
Corrected(f, window) == [results |-> f.results, recent |-> f.recent, window |-> window]

\* lines 491-492: fixPunctuation applied to the deduplicated results d
StitchDeduplicated(d, recent) == Corrected(fixPunctuation(d.results, recent), d.window)

\* deduplicateAndCorrect: corrected results, stitch history and deduplicator window
deduplicateAndCorrect(newResults, recent, window, cfg, hasDeduplicator) ==
    IF newResults = <<>> \/ ~hasDeduplicator
    THEN Corrected(fixPunctuation(newResults, recent), window)
    ELSE StitchDeduplicated(DedupEach(newResults, 1, window, cfg, <<>>), recent)

\* config_.enableDeduplication ? deduplicateAndCorrect(results) : fixPunctuation(results)
CorrectResults(results, recent, window, cfg, enableDeduplication) ==
    IF enableDeduplication
    THEN deduplicateAndCorrect(results, recent, window, cfg, enableDeduplication)
    ELSE Corrected(fixPunctuation(results, recent), window)

RECURSIVE Emit(_, _, _, _)
\* the callback's arguments, in call order: non-empty results, shifted by startTime
Emit(correctedResults, i, startTime, calls) ==
    IF i > Len(correctedResults) THEN calls
    ELSE Emit(correctedResults, i + 1, startTime,
              IF correctedResults[i].text # <<>>
              THEN Append(calls, [correctedResults[i] EXCEPT
                                     !.startTime = @ + startTime, !.endTime = @ + startTime])
              ELSE calls)

(***************************************************************************)
(* WhisperTranscriber: the real-time pipeline.                             *)
(* Three threads: the capture callback (addAudioData), the thread that     *)
(* calls start and stop, and the worker (processingThreadFunction).        *)
(* A step of the worker ends where it acquires or releases queueMutex_,    *)
(* or where it calls the recognition engine.                               *)
(***************************************************************************)
MaxChunks == 2          \* chunks the capture callback delivers
MaxSessions == 2        \* sessions started

ChunkSizes == {6, 22}   \* chunk lengths in blocks (1.5 s and 5.5 s)
Callbacks == {1}
NoCallback == 0

Chunk(id, n, speech, ts) == [id |-> id, n |-> n, speech |-> speech, ts |-> ts]
NoChunk == Chunk(0, 0, FALSE, 0)
NoProcessing == [audio |-> <<>>, tail |-> <<>>, body |-> <<>>, startTime |-> 0]

\* the samples of a chunk: n blocks, each tagged with the chunk's id
Blocks(chunk) == [i \in 1..chunk.n |-> chunk.id]

RECURSIVE BlocksOf(_)
BlocksOf(chunks) ==
    IF chunks = <<>> THEN <<>> ELSE Blocks(Head(chunks)) \o BlocksOf(Tail(chunks))

\* the energy test on the chunk's samples; speech is its outcome for a non-empty chunk
detectSpeech(chunk) == IF chunk.n = 0 THEN FALSE ELSE chunk.speech

\* a flush decision that only listens for silence
ShouldProcessSilenceOnly(bufferSize, chunk) ==
    bufferSize >= minSamples /\ ~detectSpeech(chunk)

\* a flush decision that does not wait for the soft minimum
ShouldProcessAnySize(bufferSize, chunk) ==
    IF bufferSize >= maxSamples THEN TRUE
    ELSE ~detectSpeech(chunk)

\* shouldProcess after appending chunk, with bufferSize = audioBuffer_.size()
ShouldProcess(bufferSize, chunk) ==
    IF bufferSize >= maxSamples THEN TRUE
    ELSE IF bufferSize >= minSamples THEN ~detectSpeech(chunk)
    ELSE FALSE

\* an overlap tail taken from the front of the buffer
NextOverlapFront(buffer) ==
    IF Len(buffer) >= overlapSamples
    THEN SubSeq(buffer, 1, overlapSamples)
    ELSE buffer

\* the overlap tail kept for the next flush
NextOverlap(buffer) ==
    IF Len(buffer) >= overlapSamples
    THEN SubSeq(buffer, Len(buffer) - overlapSamples + 1, Len(buffer))
    ELSE buffer

EngineOutcomes ==
    { EngineFailure,
      EngineText(<<>>, 0, 0),
      EngineText(HelloWorldDot, 0, 2000),
      EngineText(HelloWorldAgainRaw, 0, 2000),
      EngineText(Fox, 0, 2000) }

QueuedIds == {audioQueue_[i].id : i \in 1..Len(audioQueue_)}

RECURSIVE CountEmitted(_)
CountEmitted(log) ==
    IF log = <<>> THEN 0 ELSE Len(Head(log).emitted) + CountEmitted(Tail(log))

\* no helper function has been called on its own
NoHelperCall == [fn |-> "none"]

\* no addAudioData call has been observed
NoAdd == [calls |-> 0, n |-> 0, initialized |-> FALSE, notified |-> FALSE]

PipeConstructed ==
    /\ initialized_ = FALSE
    /\ audioQueue_ = <<>>
    /\ queueMutex_ = "free"
    /\ shouldStop_ = FALSE
    /\ resultCallback_ = NoCallback
    /\ joinable = FALSE
    /\ audioBuffer_ = <<>>
    /\ bufferStartTime_ = 0
    /\ overlapBuffer_ = <<>>
    /\ recentResults_ = <<>>
    /\ workerPc = "none"
    /\ workerRet = "relock"
    /\ workerChunk = NoChunk
    /\ processing = NoProcessing
    /\ ctlPc = "idle"
    /\ captureBlocks = 0
    /\ chunksAdded = 0
    /\ session = 0
    /\ dequeued = <<>>
    /\ flushLog = <<>>
    /\ preStopChunks = {}
    /\ stopObserved = FALSE
    /\ exitLen = 0
    /\ emittedBefore = 0
    /\ stitchLog = <<>>
    /\ addLast = NoAdd
    /\ helperLast = NoHelperCall
    /\ acceptedChunks = <<>>

\* bool WhisperTranscriber::initialize(), the model loads
PipeInitialize ==
    /\ ctlPc = "idle"
    /\ ~initialized_
    /\ initialized_' = TRUE
    /\ UNCHANGED <<ringVars, config_, dedupLog, dedupCalls, stitchLog, addLast, helperLast,
                   acceptedChunks,
                   wtConfig, audioQueue_,
                   queueMutex_, shouldStop_, resultCallback_, joinable, audioBuffer_,
                   bufferStartTime_, overlapBuffer_, recentResults_, workerPc, workerRet,
                   workerChunk, processing, ctlPc, captureBase, captureBlocks, chunksAdded,
                   session, dequeued, flushLog, preStopChunks, stopObserved, exitLen,
                   emittedBefore, recentSegments_>>

\* an addAudioData that does not look at the chunk it is given
AddAudioDataAnyChunk(n, speech) ==
    /\ chunksAdded < MaxChunks
    /\ IF ~initialized_
       THEN UNCHANGED <<audioQueue_, chunksAdded, captureBlocks, preStopChunks,
                        acceptedChunks>>
       ELSE /\ queueMutex_ = "free"
            /\ audioQueue_' = Append(audioQueue_,
                                     Chunk(chunksAdded + 1, n, speech,
                                           captureBase + MsPerBlock * captureBlocks))
            /\ acceptedChunks' = Append(acceptedChunks,
                                        Chunk(chunksAdded + 1, n, speech,
                                              captureBase + MsPerBlock * captureBlocks))
            /\ chunksAdded' = chunksAdded + 1
            /\ captureBlocks' = captureBlocks + n
            /\ preStopChunks' = IF stopObserved THEN preStopChunks
                                ELSE preStopChunks \cup {chunksAdded + 1}
    /\ UNCHANGED <<ringVars, config_, dedupLog, dedupCalls, stitchLog, helperLast,
                   initialized_, wtConfig,
                   queueMutex_, shouldStop_, resultCallback_, joinable, audioBuffer_,
                   bufferStartTime_, overlapBuffer_, recentResults_, workerPc, workerRet,
                   workerChunk, processing, ctlPc, captureBase, session, dequeued,
                   flushLog, stopObserved, exitLen, emittedBefore, recentSegments_>>

\* void WhisperTranscriber::addAudioData(audioData, timestamp)
AddAudioData(n, speech) ==
    /\ chunksAdded < MaxChunks
    /\ IF ~initialized_ \/ n = 0
       THEN UNCHANGED <<audioQueue_, chunksAdded, captureBlocks, preStopChunks,
                        acceptedChunks>>
       ELSE /\ queueMutex_ = "free"
            /\ audioQueue_' = Append(audioQueue_,
                                     Chunk(chunksAdded + 1, n, speech,
                                           captureBase + MsPerBlock * captureBlocks))
            /\ acceptedChunks' = Append(acceptedChunks,
                                        Chunk(chunksAdded + 1, n, speech,
                                              captureBase + MsPerBlock * captureBlocks))
            /\ chunksAdded' = chunksAdded + 1
            /\ captureBlocks' = captureBlocks + n
            /\ preStopChunks' = IF stopObserved THEN preStopChunks
                                ELSE preStopChunks \cup {chunksAdded + 1}
    /\ UNCHANGED <<ringVars, config_, dedupLog, dedupCalls, stitchLog, helperLast,
                   initialized_, wtConfig,
                   queueMutex_, shouldStop_, resultCallback_, joinable, audioBuffer_,
                   bufferStartTime_, overlapBuffer_, recentResults_, workerPc, workerRet,
                   workerChunk, processing, ctlPc, captureBase, session, dequeued,
                   flushLog, stopObserved, exitLen, emittedBefore, recentSegments_>>

\* a start that installs the new callback even though a worker is running
StartReplacesCallback(callback) ==
    /\ ctlPc = "idle"
    /\ IF joinable
       THEN /\ resultCallback_' = callback
            /\ UNCHANGED <<shouldStop_, joinable, workerPc, session, dequeued,
                           flushLog, preStopChunks, stopObserved, exitLen, emittedBefore>>
       ELSE /\ session < MaxSessions
            /\ resultCallback_' = callback
            /\ shouldStop_' = FALSE
            /\ joinable' = TRUE
            /\ workerPc' = "loop"
            /\ session' = session + 1
            /\ dequeued' = <<>>
            /\ flushLog' = <<>>
            /\ preStopChunks' = QueuedIds
            /\ stopObserved' = FALSE
            /\ exitLen' = 0
            /\ emittedBefore' = emittedBefore + CountEmitted(flushLog)
    /\ UNCHANGED <<ringVars, config_, dedupLog, dedupCalls, stitchLog, addLast, helperLast,
                   acceptedChunks,
                   initialized_, wtConfig,
                   audioQueue_, queueMutex_, audioBuffer_, bufferStartTime_,
                   overlapBuffer_, recentResults_, workerRet, workerChunk, processing,
                   ctlPc, captureBase, captureBlocks, chunksAdded, recentSegments_>>

\* void WhisperTranscriber::startRealTimeProcessing(callback)
StartRealTimeProcessing(callback) ==
    /\ ctlPc = "idle"
    /\ IF joinable
       THEN UNCHANGED <<resultCallback_, shouldStop_, joinable, workerPc, session, dequeued,
                        flushLog, preStopChunks, stopObserved, exitLen, emittedBefore>>
       ELSE /\ session < MaxSessions
            /\ resultCallback_' = callback
            /\ shouldStop_' = FALSE
            /\ joinable' = TRUE
            /\ workerPc' = "loop"
            /\ session' = session + 1
            /\ dequeued' = <<>>
            /\ flushLog' = <<>>
            /\ preStopChunks' = QueuedIds
            /\ stopObserved' = FALSE
            /\ exitLen' = 0
            /\ emittedBefore' = emittedBefore + CountEmitted(flushLog)
    /\ UNCHANGED <<ringVars, config_, dedupLog, dedupCalls, stitchLog, addLast, helperLast,
                   acceptedChunks,
                   initialized_, wtConfig,
                   audioQueue_, queueMutex_, audioBuffer_, bufferStartTime_,
                   overlapBuffer_, recentResults_, workerRet, workerChunk, processing,
                   ctlPc, captureBase, captureBlocks, chunksAdded, recentSegments_>>

\* a stop that sets the flag and returns without joining the worker
StopBeginDetaches ==
    /\ ctlPc = "idle"
    /\ IF ~joinable
       THEN UNCHANGED <<shouldStop_, ctlPc, joinable>>
       ELSE /\ shouldStop_' = TRUE
            /\ joinable' = FALSE
            /\ UNCHANGED ctlPc
    /\ UNCHANGED <<ringVars, config_, dedupLog, dedupCalls, stitchLog, addLast, helperLast,
                   acceptedChunks,
                   initialized_, wtConfig,
                   audioQueue_, queueMutex_, resultCallback_, audioBuffer_,
                   bufferStartTime_, overlapBuffer_, recentResults_, workerPc, workerRet,
                   workerChunk, processing, captureBase, captureBlocks, chunksAdded,
                   session, dequeued, flushLog, preStopChunks, stopObserved, exitLen,
                   emittedBefore, recentSegments_>>

\* stopRealTimeProcessing, lines 142-148: return if not joinable, else set the flag and notify
StopBegin ==
    /\ ctlPc = "idle"
    /\ IF ~joinable
       THEN UNCHANGED <<shouldStop_, ctlPc>>
       ELSE /\ shouldStop_' = TRUE
            /\ ctlPc' = "stop_join"
    /\ UNCHANGED <<ringVars, config_, dedupLog, dedupCalls, stitchLog, addLast, helperLast,
                   acceptedChunks,
                   initialized_, wtConfig,
                   audioQueue_, queueMutex_, resultCallback_, joinable, audioBuffer_,
                   bufferStartTime_, overlapBuffer_, recentResults_, workerPc, workerRet,
                   workerChunk, processing, captureBase, captureBlocks, chunksAdded,
                   session, dequeued, flushLog, preStopChunks, stopObserved, exitLen,
                   emittedBefore, recentSegments_>>

\* a stop that goes on to clear without waiting for the worker to end
StopJoinNoWait ==
    /\ ctlPc = "stop_join"
    /\ joinable' = FALSE
    /\ ctlPc' = "stop_lock"
    /\ UNCHANGED <<ringVars, config_, dedupLog, dedupCalls, stitchLog, addLast, helperLast,
                   acceptedChunks,
                   initialized_, wtConfig,
                   audioQueue_, queueMutex_, shouldStop_, resultCallback_, audioBuffer_,
                   bufferStartTime_, overlapBuffer_, recentResults_, workerPc, workerRet,
                   workerChunk, processing, captureBase, captureBlocks, chunksAdded,
                   session, dequeued, flushLog, preStopChunks, stopObserved, exitLen,
                   emittedBefore, recentSegments_>>

\* stopRealTimeProcessing, lines 150-153: processingThread_.join()
StopJoin ==
    /\ ctlPc = "stop_join"
    /\ workerPc = "ended"
    /\ workerPc' = "none"
    /\ joinable' = FALSE
    /\ ctlPc' = "stop_lock"
    /\ UNCHANGED <<ringVars, config_, dedupLog, dedupCalls, stitchLog, addLast, helperLast,
                   acceptedChunks,
                   initialized_, wtConfig,
                   audioQueue_, queueMutex_, shouldStop_, resultCallback_, audioBuffer_,
                   bufferStartTime_, overlapBuffer_, recentResults_, workerRet,
                   workerChunk, processing, captureBase, captureBlocks, chunksAdded,
                   session, dequeued, flushLog, preStopChunks, stopObserved, exitLen,
                   emittedBefore, recentSegments_>>

\* a stop that keeps the overlap tail and the deduplicator context
StopClearKeepsContext ==
    /\ ctlPc = "stop_lock"
    /\ queueMutex_ = "free"
    /\ queueMutex_' = "ctl"
    /\ audioQueue_' = <<>>
    /\ acceptedChunks' = <<>>
    /\ audioBuffer_' = <<>>
    /\ recentResults_' = <<>>
    /\ ctlPc' = "stop_cleared"
    /\ UNCHANGED <<ringVars, config_, dedupLog, dedupCalls, stitchLog, addLast, helperLast,
                   initialized_, wtConfig,
                   shouldStop_, resultCallback_, joinable, bufferStartTime_,
                   overlapBuffer_, workerPc, workerRet, workerChunk, processing,
                   captureBase, captureBlocks, chunksAdded, session, dequeued, flushLog,
                   preStopChunks, stopObserved, exitLen, emittedBefore, recentSegments_>>

\* a stop that keeps the stitch history
StopClearKeepsHistory ==
    /\ ctlPc = "stop_lock"
    /\ queueMutex_ = "free"
    /\ queueMutex_' = "ctl"
    /\ audioQueue_' = <<>>
    /\ acceptedChunks' = <<>>
    /\ audioBuffer_' = <<>>
    /\ overlapBuffer_' = <<>>
    /\ recentSegments_' = IF wtConfig.enableDeduplication THEN <<>> ELSE recentSegments_
    /\ ctlPc' = "stop_cleared"
    /\ UNCHANGED <<ringVars, config_, dedupLog, dedupCalls, stitchLog, addLast, helperLast,
                   initialized_, wtConfig,
                   shouldStop_, resultCallback_, joinable, bufferStartTime_,
                   recentResults_, workerPc, workerRet, workerChunk, processing,
                   captureBase, captureBlocks, chunksAdded, session, dequeued, flushLog,
                   preStopChunks, stopObserved, exitLen, emittedBefore>>

\* stopRealTimeProcessing, lines 155-169: lock the queue mutex and clear
StopClear ==
    /\ ctlPc = "stop_lock"
    /\ queueMutex_ = "free"
    /\ queueMutex_' = "ctl"
    /\ audioQueue_' = <<>>
    /\ acceptedChunks' = <<>>
    /\ audioBuffer_' = <<>>
    /\ overlapBuffer_' = <<>>
    /\ recentResults_' = <<>>
    /\ recentSegments_' = IF wtConfig.enableDeduplication THEN <<>> ELSE recentSegments_
    /\ ctlPc' = "stop_cleared"
    /\ UNCHANGED <<ringVars, config_, dedupLog, dedupCalls, stitchLog, addLast, helperLast,
                   initialized_, wtConfig,
                   shouldStop_, resultCallback_, joinable, bufferStartTime_, workerPc,
                   workerRet, workerChunk, processing, captureBase, captureBlocks,
                   chunksAdded, session, dequeued, flushLog, preStopChunks, stopObserved,
                   exitLen, emittedBefore>>

\* stopRealTimeProcessing returns: the lock_guard releases the mutex
StopReturn ==
    /\ ctlPc = "stop_cleared"
    /\ queueMutex_' = "free"
    /\ ctlPc' = "idle"
    /\ UNCHANGED <<ringVars, config_, dedupLog, dedupCalls, stitchLog, addLast, helperLast,
                   acceptedChunks,
                   initialized_, wtConfig,
                   audioQueue_, shouldStop_, resultCallback_, joinable, audioBuffer_,
                   bufferStartTime_, overlapBuffer_, recentResults_, workerPc, workerRet,
                   workerChunk, processing, captureBase, captureBlocks, chunksAdded,
                   session, dequeued, flushLog, preStopChunks, stopObserved, exitLen,
                   emittedBefore, recentSegments_>>

\* line 201: while (!shouldStop_.load())
WorkerLoop ==
    /\ workerPc = "loop"
    /\ workerPc' = IF shouldStop_ THEN "final" ELSE "lock"
    /\ stopObserved' = (stopObserved \/ shouldStop_)
    /\ UNCHANGED <<ringVars, config_, dedupLog, dedupCalls, stitchLog, addLast, helperLast,
                   acceptedChunks,
                   initialized_, wtConfig,
                   audioQueue_, queueMutex_, shouldStop_, resultCallback_, joinable,
                   audioBuffer_, bufferStartTime_, overlapBuffer_, recentResults_,
                   workerRet, workerChunk, processing, ctlPc, captureBase, captureBlocks,
                   chunksAdded, session, dequeued, flushLog, preStopChunks, exitLen,
                   emittedBefore, recentSegments_>>

\* line 203: std::unique_lock<std::mutex> lock(queueMutex_)
WorkerLock ==
    /\ workerPc = "lock"
    /\ queueMutex_ = "free"
    /\ queueMutex_' = "worker"
    /\ workerPc' = "wait"
    /\ UNCHANGED <<ringVars, config_, dedupLog, dedupCalls, stitchLog, addLast, helperLast,
                   acceptedChunks,
                   initialized_, wtConfig,
                   audioQueue_, shouldStop_, resultCallback_, joinable, audioBuffer_,
                   bufferStartTime_, overlapBuffer_, recentResults_, workerRet,
                   workerChunk, processing, ctlPc, captureBase, captureBlocks, chunksAdded,
                   session, dequeued, flushLog, preStopChunks, stopObserved, exitLen,
                   emittedBefore, recentSegments_>>

\* line 206: wait_for with the predicate true returns at once, else it releases the mutex
WorkerWait ==
    /\ workerPc = "wait"
    /\ IF audioQueue_ # <<>> \/ shouldStop_
       THEN /\ workerPc' = "woken"
            /\ UNCHANGED queueMutex_
       ELSE /\ workerPc' = "blocked"
            /\ queueMutex_' = "free"
    /\ UNCHANGED <<ringVars, config_, dedupLog, dedupCalls, stitchLog, addLast, helperLast,
                   acceptedChunks,
                   initialized_, wtConfig,
                   audioQueue_, shouldStop_, resultCallback_, joinable, audioBuffer_,
                   bufferStartTime_, overlapBuffer_, recentResults_, workerRet,
                   workerChunk, processing, ctlPc, captureBase, captureBlocks, chunksAdded,
                   session, dequeued, flushLog, preStopChunks, stopObserved, exitLen,
                   emittedBefore, recentSegments_>>

\* a wait without a timeout whose predicate looks at the queue only
WorkerWakeOnDataOnly ==
    /\ workerPc = "blocked"
    /\ queueMutex_ = "free"
    /\ audioQueue_ # <<>>
    /\ queueMutex_' = "worker"
    /\ workerPc' = "woken"
    /\ UNCHANGED <<ringVars, config_, dedupLog, dedupCalls, stitchLog, addLast, helperLast,
                   acceptedChunks,
                   initialized_, wtConfig,
                   audioQueue_, shouldStop_, resultCallback_, joinable, audioBuffer_,
                   bufferStartTime_, overlapBuffer_, recentResults_, workerRet,
                   workerChunk, processing, ctlPc, captureBase, captureBlocks, chunksAdded,
                   session, dequeued, flushLog, preStopChunks, stopObserved, exitLen,
                   emittedBefore, recentSegments_>>

\* line 206: wait_for returns (notified, or 100 ms elapsed) with the mutex held again
WorkerWake ==
    /\ workerPc = "blocked"
    /\ queueMutex_ = "free"
    /\ queueMutex_' = "worker"
    /\ workerPc' = "woken"
    /\ UNCHANGED <<ringVars, config_, dedupLog, dedupCalls, stitchLog, addLast, helperLast,
                   acceptedChunks,
                   initialized_, wtConfig,
                   audioQueue_, shouldStop_, resultCallback_, joinable, audioBuffer_,
                   bufferStartTime_, overlapBuffer_, recentResults_, workerRet,
                   workerChunk, processing, ctlPc, captureBase, captureBlocks, chunksAdded,
                   session, dequeued, flushLog, preStopChunks, stopObserved, exitLen,
                   emittedBefore, recentSegments_>>

\* lines 209-212: if (shouldStop_.load()) break, which releases the lock
WorkerAfterWait ==
    /\ workerPc = "woken"
    /\ IF shouldStop_
       THEN /\ workerPc' = "final"
            /\ queueMutex_' = "free"
       ELSE /\ workerPc' = "inner"
            /\ UNCHANGED queueMutex_
    /\ stopObserved' = (stopObserved \/ shouldStop_)
    /\ UNCHANGED <<ringVars, config_, dedupLog, dedupCalls, stitchLog, addLast, helperLast,
                   acceptedChunks,
                   initialized_, wtConfig,
                   audioQueue_, shouldStop_, resultCallback_, joinable, audioBuffer_,
                   bufferStartTime_, overlapBuffer_, recentResults_, workerRet,
                   workerChunk, processing, ctlPc, captureBase, captureBlocks, chunksAdded,
                   session, dequeued, flushLog, preStopChunks, exitLen, emittedBefore,
                   recentSegments_>>

\* an inner loop that keeps the queue mutex while it handles the chunk it popped
WorkerInnerKeepsLock ==
    /\ workerPc = "inner"
    /\ queueMutex_' = IF audioQueue_ # <<>> /\ ~shouldStop_ THEN "worker" ELSE "free"
    /\ IF audioQueue_ # <<>> /\ ~shouldStop_
       THEN /\ workerChunk' = Head(audioQueue_)
            /\ audioQueue_' = Tail(audioQueue_)
            /\ dequeued' = Append(dequeued, Head(audioQueue_))
            /\ workerPc' = "append"
            /\ UNCHANGED stopObserved
       ELSE /\ workerPc' = "loop"
            /\ stopObserved' = (stopObserved \/ (audioQueue_ # <<>> /\ shouldStop_))
            /\ UNCHANGED <<workerChunk, audioQueue_, dequeued>>
    /\ UNCHANGED <<ringVars, config_, dedupLog, dedupCalls, stitchLog, addLast, helperLast,
                   acceptedChunks,
                   initialized_, wtConfig,
                   shouldStop_, resultCallback_, joinable, audioBuffer_, bufferStartTime_,
                   overlapBuffer_, recentResults_, workerRet, processing, ctlPc,
                   captureBase, captureBlocks, chunksAdded, session, flushLog,
                   preStopChunks, exitLen, emittedBefore, recentSegments_>>

\* lines 215-219: the inner while; pop and unlock, or leave the iteration (unlock)
WorkerInner ==
    /\ workerPc = "inner"
    /\ queueMutex_' = "free"
    /\ IF audioQueue_ # <<>> /\ ~shouldStop_
       THEN /\ workerChunk' = Head(audioQueue_)
            /\ audioQueue_' = Tail(audioQueue_)
            /\ dequeued' = Append(dequeued, Head(audioQueue_))
            /\ workerPc' = "append"
            /\ UNCHANGED stopObserved
       ELSE /\ workerPc' = "loop"
            /\ stopObserved' = (stopObserved \/ (audioQueue_ # <<>> /\ shouldStop_))
            /\ UNCHANGED <<workerChunk, audioQueue_, dequeued>>
    /\ UNCHANGED <<ringVars, config_, dedupLog, dedupCalls, stitchLog, addLast, helperLast,
                   acceptedChunks,
                   initialized_, wtConfig,
                   shouldStop_, resultCallback_, joinable, audioBuffer_, bufferStartTime_,
                   overlapBuffer_, recentResults_, workerRet, processing, ctlPc,
                   captureBase, captureBlocks, chunksAdded, session, flushLog,
                   preStopChunks, exitLen, emittedBefore, recentSegments_>>

\* a worker that puts each chunk in front of the audio it has accumulated
WorkerAppendInFront ==
    /\ workerPc = "append"
    /\ audioBuffer_' = Blocks(workerChunk) \o audioBuffer_
    /\ bufferStartTime_' = IF bufferStartTime_ = 0 THEN workerChunk.ts ELSE bufferStartTime_
    /\ IF ShouldProcess(Len(audioBuffer_'), workerChunk)
       THEN workerPc' = "flush" /\ workerRet' = "relock"
       ELSE workerPc' = "relock" /\ UNCHANGED workerRet
    /\ workerChunk' = NoChunk
    /\ UNCHANGED <<ringVars, config_, dedupLog, dedupCalls, stitchLog, addLast, helperLast,
                   acceptedChunks,
                   initialized_, wtConfig,
                   audioQueue_, queueMutex_, shouldStop_, resultCallback_, joinable,
                   overlapBuffer_, recentResults_, processing, ctlPc, captureBase,
                   captureBlocks, chunksAdded, session, dequeued, flushLog, preStopChunks,
                   stopObserved, exitLen, emittedBefore, recentSegments_>>

\* lines 221-260: append the chunk, set the buffer start time, decide whether to flush
WorkerAppend ==
    /\ workerPc = "append"
    /\ audioBuffer_' = audioBuffer_ \o Blocks(workerChunk)
    /\ bufferStartTime_' = IF bufferStartTime_ = 0 THEN workerChunk.ts ELSE bufferStartTime_
    /\ IF ShouldProcess(Len(audioBuffer_'), workerChunk)
       THEN workerPc' = "flush" /\ workerRet' = "relock"
       ELSE workerPc' = "relock" /\ UNCHANGED workerRet
    /\ workerChunk' = NoChunk
    /\ UNCHANGED <<ringVars, config_, dedupLog, dedupCalls, stitchLog, addLast, helperLast,
                   acceptedChunks,
                   initialized_, wtConfig,
                   audioQueue_, queueMutex_, shouldStop_, resultCallback_, joinable,
                   overlapBuffer_, recentResults_, processing, ctlPc, captureBase,
                   captureBlocks, chunksAdded, session, dequeued, flushLog, preStopChunks,
                   stopObserved, exitLen, emittedBefore, recentSegments_>>

\* line 262: lock.lock()
WorkerRelock ==
    /\ workerPc = "relock"
    /\ queueMutex_ = "free"
    /\ queueMutex_' = "worker"
    /\ workerPc' = "inner"
    /\ UNCHANGED <<ringVars, config_, dedupLog, dedupCalls, stitchLog, addLast, helperLast,
                   acceptedChunks,
                   initialized_, wtConfig,
                   audioQueue_, shouldStop_, resultCallback_, joinable, audioBuffer_,
                   bufferStartTime_, overlapBuffer_, recentResults_, workerRet,
                   workerChunk, processing, ctlPc, captureBase, captureBlocks, chunksAdded,
                   session, dequeued, flushLog, preStopChunks, stopObserved, exitLen,
                   emittedBefore, recentSegments_>>

\* a worker that ends without the final flush
WorkerFinalNoFlush ==
    /\ workerPc = "final"
    /\ exitLen' = Len(audioBuffer_)
    /\ workerPc' = "ended"
    /\ workerRet' = "ended"
    /\ UNCHANGED <<ringVars, config_, dedupLog, dedupCalls, stitchLog, addLast, helperLast,
                   acceptedChunks,
                   initialized_, wtConfig,
                   audioQueue_, queueMutex_, shouldStop_, resultCallback_, joinable,
                   audioBuffer_, bufferStartTime_, overlapBuffer_, recentResults_,
                   workerChunk, processing, ctlPc, captureBase, captureBlocks, chunksAdded,
                   session, dequeued, flushLog, preStopChunks, stopObserved, emittedBefore,
                   recentSegments_>>

\* lines 266-272: process any remaining buffer, then the thread function returns
WorkerFinal ==
    /\ workerPc = "final"
    /\ exitLen' = Len(audioBuffer_)
    /\ workerPc' = IF audioBuffer_ # <<>> THEN "flush" ELSE "ended"
    /\ workerRet' = "ended"
    /\ UNCHANGED <<ringVars, config_, dedupLog, dedupCalls, stitchLog, addLast, helperLast,
                   acceptedChunks,
                   initialized_, wtConfig,
                   audioQueue_, queueMutex_, shouldStop_, resultCallback_, joinable,
                   audioBuffer_, bufferStartTime_, overlapBuffer_, recentResults_,
                   workerChunk, processing, ctlPc, captureBase, captureBlocks, chunksAdded,
                   session, dequeued, flushLog, preStopChunks, stopObserved, emittedBefore,
                   recentSegments_>>

\* processBuffer, lines 277-309: refuse, or build the engine's input, keep the tail, clear
ProcessBufferBegin ==
    /\ workerPc = "flush"
    /\ IF audioBuffer_ = <<>> \/ resultCallback_ = NoCallback
       THEN /\ workerPc' = workerRet
            /\ UNCHANGED <<processing, overlapBuffer_, audioBuffer_, bufferStartTime_>>
       ELSE /\ processing' = [audio |-> overlapBuffer_ \o audioBuffer_,
                              tail |-> overlapBuffer_, body |-> audioBuffer_,
                              startTime |-> bufferStartTime_]
            /\ overlapBuffer_' = NextOverlap(audioBuffer_)
            /\ audioBuffer_' = <<>>
            /\ bufferStartTime_' = 0
            /\ workerPc' = "engine"
    /\ UNCHANGED <<ringVars, config_, dedupLog, dedupCalls, stitchLog, addLast, helperLast,
                   acceptedChunks,
                   initialized_, wtConfig,
                   audioQueue_, queueMutex_, shouldStop_, resultCallback_, joinable,
                   recentResults_, workerRet, workerChunk, ctlPc, captureBase,
                   captureBlocks, chunksAdded, session, dequeued, flushLog, preStopChunks,
                   stopObserved, exitLen, emittedBefore, recentSegments_>>

\* a flush that calls back with the results as recognized, not as corrected
DeliveredUncorrected(results, c, success) ==
    /\ recentResults_' = c.recent
    /\ recentSegments_' = c.window
    /\ flushLog' = Append(flushLog,
                          [tail |-> processing.tail, body |-> processing.body,
                           startTime |-> processing.startTime,
                           recognized |-> results,
                           corrected |-> c.results,
                           emitted |-> IF resultCallback_ # NoCallback
                                       THEN Emit(results, 1, processing.startTime, <<>>)
                                       ELSE <<>>,
                           final |-> (workerRet = "ended"),
                           success |-> success])

\* lines 317-329: the results c of the text processing are stored and called back
Delivered(results, c, success) ==
    /\ recentResults_' = c.recent
    /\ recentSegments_' = c.window
    /\ flushLog' = Append(flushLog,
                          [tail |-> processing.tail, body |-> processing.body,
                           startTime |-> processing.startTime,
                           recognized |-> results,
                           corrected |-> c.results,
                           emitted |-> IF resultCallback_ # NoCallback
                                       THEN Emit(c.results, 1, processing.startTime, <<>>)
                                       ELSE <<>>,
                           final |-> (workerRet = "ended"),
                           success |-> success])

\* lines 314-315: the results of transcribe go through the text processing
Transcribed(results, success) ==
    Delivered(results,
              CorrectResults(results, recentResults_, recentSegments_, config_,
                             wtConfig.enableDeduplication),
              success)

\* a flush whose engine failure ends the worker
ProcessBufferEngineFatal(bridge_result) ==
    /\ workerPc = "engine"
    /\ Transcribed(transcribe(processing.audio, initialized_, bridge_result),
                   bridge_result.success)
    /\ processing' = NoProcessing
    /\ workerPc' = IF bridge_result.success THEN workerRet ELSE "ended"
    /\ UNCHANGED <<ringVars, config_, dedupLog, dedupCalls, stitchLog, addLast, helperLast,
                   acceptedChunks,
                   initialized_, wtConfig,
                   audioQueue_, queueMutex_, shouldStop_, resultCallback_, joinable,
                   audioBuffer_, bufferStartTime_, overlapBuffer_, workerRet, workerChunk,
                   ctlPc, captureBase, captureBlocks, chunksAdded, session, dequeued,
                   preStopChunks, stopObserved, exitLen, emittedBefore>>

\* processBuffer, lines 311-331: the engine returns; correct the results and call back
ProcessBufferEngine(bridge_result) ==
    /\ workerPc = "engine"
    /\ Transcribed(transcribe(processing.audio, initialized_, bridge_result),
                   bridge_result.success)
    /\ processing' = NoProcessing
    /\ workerPc' = workerRet
    /\ UNCHANGED <<ringVars, config_, dedupLog, dedupCalls, stitchLog, addLast, helperLast,
                   acceptedChunks,
                   initialized_, wtConfig,
                   audioQueue_, queueMutex_, shouldStop_, resultCallback_, joinable,
                   audioBuffer_, bufferStartTime_, overlapBuffer_, workerRet, workerChunk,
                   ctlPc, captureBase, captureBlocks, chunksAdded, session, dequeued,
                   preStopChunks, stopObserved, exitLen, emittedBefore>>

(***************************************************************************)
(* Specifications                                                          *)
(***************************************************************************)
RingInit ==
    /\ RingConstructed
    /\ DedupConstructed
    /\ PipeConstructed
    /\ wtConfig = [enableDeduplication |-> TRUE]
    /\ captureBase = 0
    /\ config_ = DefaultDedupConfig

RingNext ==
    \/ \E isNull \in BOOLEAN, numSamples \in 0..MaxWrite :
           RingWrite(isNull, numSamples) /\ UNCHANGED <<ringThreadVars, dedupVars, pipeVars>>
    \/ \E isNull \in BOOLEAN, numSamples \in 0..MaxWrite :
           RingRead(isNull, numSamples) /\ UNCHANGED <<ringThreadVars, dedupVars, pipeVars>>
    \/ RingClear /\ UNCHANGED <<ringThreadVars, dedupVars, pipeVars>>

SpecRing == RingInit /\ [][RingNext]_vars

RingThreadsNext ==
    \/ \E numSamples \in 0..MaxWrite : ThreadWrite(numSamples) /\ UNCHANGED <<dedupVars, pipeVars>>
    \/ WriterLock /\ UNCHANGED <<dedupVars, pipeVars>>
    \/ WriterBegin /\ UNCHANGED <<dedupVars, pipeVars>>
    \/ WriterStore /\ UNCHANGED <<dedupVars, pipeVars>>
    \/ WriterCommit /\ UNCHANGED <<dedupVars, pipeVars>>
    \/ WriterUnlock /\ UNCHANGED <<dedupVars, pipeVars>>
    \/ \E numSamples \in 0..MaxWrite : ThreadRead(numSamples) /\ UNCHANGED <<dedupVars, pipeVars>>
    \/ ThreadClear /\ UNCHANGED <<dedupVars, pipeVars>>
    \/ ThreadGetAvailableSamples /\ UNCHANGED <<dedupVars, pipeVars>>
    \/ ReaderLock /\ UNCHANGED <<dedupVars, pipeVars>>
    \/ ReadBegin /\ UNCHANGED <<dedupVars, pipeVars>>
    \/ ReadCopy /\ UNCHANGED <<dedupVars, pipeVars>>
    \/ ReadCommit /\ UNCHANGED <<dedupVars, pipeVars>>
    \/ ClearWriteIndex /\ UNCHANGED <<dedupVars, pipeVars>>
    \/ ClearReadIndex /\ UNCHANGED <<dedupVars, pipeVars>>
    \/ ClearAvailable /\ UNCHANGED <<dedupVars, pipeVars>>
    \/ GetAvailableLoad /\ UNCHANGED <<dedupVars, pipeVars>>
    \/ ReaderUnlock /\ UNCHANGED <<dedupVars, pipeVars>>

SpecRingThreads == RingInit /\ [][RingThreadsNext]_vars

DedupInit ==
    /\ RingConstructed
    /\ DedupConstructed
    /\ PipeConstructed
    /\ wtConfig = [enableDeduplication |-> TRUE]
    /\ captureBase = 0
    /\ config_ \in DedupConfigs

DedupNext ==
    \/ \E newSegment \in DedupInputs : DedupProcessSegment(newSegment) /\ UNCHANGED <<ringVars, pipeVars>>
    \/ DedupClearContext /\ UNCHANGED <<ringVars, pipeVars>>
    \/ \E config \in DedupConfigs : DedupSetConfig(config) /\ UNCHANGED <<ringVars, pipeVars>>

SpecDedup == DedupInit /\ [][DedupNext]_vars

ResolveNext ==
    \/ \E newSegment \in ResolveInputs :
           DedupProcessSegment(newSegment) /\ UNCHANGED <<ringVars, pipeVars>>
    \/ DedupClearContext /\ UNCHANGED <<ringVars, pipeVars>>
    \/ \E config \in ResolveConfigs : DedupSetConfig(config) /\ UNCHANGED <<ringVars, pipeVars>>

SpecResolve == DedupInit /\ [][ResolveNext]_vars

(***************************************************************************)
(* The helper functions of TranscriptDeduplicator called on their own, on  *)
(* previous texts of up to MaxPrevWords words and current texts of up to   *)
(* MaxCurrWords words.                                                     *)
(***************************************************************************)
MaxPrevWords == 3
MaxCurrWords == 2

WordChoices == {<<97>>, <<97, 98>>, <<65>>}   \* "a", "ab", "A"
WordSeqs(n) == UNION {[1..k -> WordChoices] : k \in 0..n}
TextOf(words) == joinWords(words, 0, Len(words))

Window2Config == [DefaultDedupConfig EXCEPT !.slidingWindowSize = 2]
HelperConfigs == {DefaultDedupConfig, Window2Config, SmallNoFuzzyConfig}

\* the variables a helper call does not touch
helperFrame == <<ringVars, dedupVars, stitchFrame, recentResults_, stitchLog, addLast>>

\* detectOverlap(previous, current) on two segments that overlap in time
DetectOverlapCall(prevWords, currWords, cfg) ==
    /\ helperLast = NoHelperCall
    /\ helperLast' = [fn |-> "detectOverlap", prevWords |-> prevWords,
                      currWords |-> currWords, cfg |-> cfg,
                      ret |-> detectOverlap(Segment(TextOf(prevWords), 0, 2000, 90),
                                            Segment(TextOf(currWords), 1000, 3000, 90),
                                            cfg)]
    /\ UNCHANGED helperFrame

\* strings of up to MaxTextLen characters, and the two spellings of "hello world"
MaxTextLen == 2

TextAlphabet == {97, 98, 65}   \* 'a', 'b', 'A'
ShortTexts == UNION {[1..k -> TextAlphabet] : k \in 0..MaxTextLen}
SimilarityTexts == ShortTexts \cup {HelloWorldUpper, HelloWorldLower}

\* calculateSimilarity(text1, text2)
CalculateSimilarityCall(text1, text2, cfg) ==
    /\ helperLast = NoHelperCall
    /\ helperLast' = [fn |-> "calculateSimilarity", text1 |-> text1, text2 |-> text2,
                      cfg |-> cfg, ret |-> calculateSimilarity(text1, text2, cfg)]
    /\ UNCHANGED helperFrame

\* the words separated by two spaces, with a space in front and one behind
RECURSIVE LooseTextOf(_)
LooseTextOf(words) ==
    IF words = <<>> THEN <<32>> ELSE <<32>> \o Head(words) \o <<32>> \o LooseTextOf(Tail(words))

\* an OverlapInfo that names the words from start up to, not including, end
OverlapAt(start, end) ==
    [hasOverlap |-> TRUE, prevWordStart |-> 0, prevWordEnd |-> end - start,
     currWordStart |-> start, currWordEnd |-> end, similarity |-> <<1, 1>>]

\* removeOverlap(current, overlap) on a segment from 1 s to 3 s
RemoveOverlapCall(words, loose, start, end) ==
    /\ helperLast = NoHelperCall
    /\ helperLast' = [fn |-> "removeOverlap", words |-> words, loose |-> loose,
                      start |-> start, end |-> end,
                      current |-> Segment(IF loose THEN LooseTextOf(words) ELSE TextOf(words),
                                          1000, 3000, 90),
                      ret |-> removeOverlap(
                                  Segment(IF loose THEN LooseTextOf(words) ELSE TextOf(words),
                                          1000, 3000, 90),
                                  OverlapAt(start, end))]
    /\ UNCHANGED helperFrame

\* levenshteinDistance(s1, s2)
LevenshteinCall(s1, s2) ==
    /\ helperLast = NoHelperCall
    /\ helperLast' = [fn |-> "levenshteinDistance", s1 |-> s1, s2 |-> s2,
                      ret |-> levenshteinDistance(s1, s2)]
    /\ UNCHANGED helperFrame

\* the caller is done with the result of the last call
HelperDone ==
    /\ helperLast # NoHelperCall
    /\ helperLast' = NoHelperCall
    /\ UNCHANGED helperFrame

HelperInit ==
    /\ RingConstructed
    /\ DedupConstructed
    /\ PipeConstructed
    /\ wtConfig = [enableDeduplication |-> TRUE]
    /\ captureBase = 0
    /\ config_ = DefaultDedupConfig

HelperNext ==
    \/ \E prevWords \in WordSeqs(MaxPrevWords), currWords \in WordSeqs(MaxCurrWords),
          cfg \in HelperConfigs :
           DetectOverlapCall(prevWords, currWords, cfg)
    \/ \E text1 \in SimilarityTexts, text2 \in SimilarityTexts, cfg \in HelperConfigs :
           CalculateSimilarityCall(text1, text2, cfg)
    \/ \E words \in WordSeqs(MaxPrevWords) \ {<<>>}, loose \in BOOLEAN :
           \E start \in 0..(Len(words) - 1) :
               \E end \in (start + 1)..Len(words) :
                   RemoveOverlapCall(words, loose, start, end)
    \/ \E s1 \in ShortTexts, s2 \in ShortTexts : LevenshteinCall(s1, s2)
    \/ HelperDone

SpecHelpers == HelperInit /\ [][HelperNext]_vars

PipeInit ==
    /\ RingConstructed
    /\ DedupConstructed
    /\ config_ = DefaultDedupConfig
    /\ PipeConstructed
    /\ wtConfig \in [enableDeduplication : BOOLEAN]
    /\ captureBase \in {0, 1000}

PipeNext ==
    \/ PipeInitialize
    \/ \E n \in ChunkSizes \cup {0}, speech \in BOOLEAN :
           AddAudioData(n, speech) /\ UNCHANGED addLast
    \/ \E callback \in Callbacks : StartRealTimeProcessing(callback)
    \/ StopBegin
    \/ StopJoin
    \/ StopClear
    \/ StopReturn
    \/ WorkerLoop
    \/ WorkerLock
    \/ WorkerWait
    \/ WorkerWake
    \/ WorkerAfterWait
    \/ WorkerInner
    \/ WorkerAppend
    \/ WorkerRelock
    \/ WorkerFinal
    \/ ProcessBufferBegin
    \/ \E bridge_result \in EngineOutcomes : ProcessBufferEngine(bridge_result)

SpecPipe == PipeInit /\ [][PipeNext]_vars

StitchInit ==
    /\ RingConstructed
    /\ DedupConstructed
    /\ config_ = DefaultDedupConfig
    /\ PipeConstructed
    /\ wtConfig = [enableDeduplication |-> FALSE]
    /\ captureBase = 0

StitchNext ==
    \/ \E newResults \in StitchInputs :
           FixPunctuationCall(newResults) /\ UNCHANGED <<ringVars, dedupVars, stitchFrame, addLast, helperLast>>
    \/ StitchClear /\ UNCHANGED <<ringVars, dedupVars, stitchFrame, addLast, helperLast>>

SpecStitch == StitchInit /\ [][StitchNext]_vars

\* fixPunctuation late in a session: the history holds what earlier flushes left, one
\* lowercase letter per flush ("a", "b", ...), none, one below the limit, or the limit.
HistoryLengths == {0, MAX_RECENT_RESULTS - 1, MAX_RECENT_RESULTS}

HistoryOf(n) == [k \in 1..n |-> Result(<<96 + k>>, 0, 2000, 90)]

HistoryInit ==
    /\ RingConstructed
    /\ DedupConstructed
    /\ config_ = DefaultDedupConfig
    /\ initialized_ = FALSE
    /\ audioQueue_ = <<>>
    /\ queueMutex_ = "free"
    /\ shouldStop_ = FALSE
    /\ resultCallback_ = NoCallback
    /\ joinable = FALSE
    /\ audioBuffer_ = <<>>
    /\ bufferStartTime_ = 0
    /\ overlapBuffer_ = <<>>
    /\ \E n \in HistoryLengths : recentResults_ = HistoryOf(n)
    /\ workerPc = "none"
    /\ workerRet = "relock"
    /\ workerChunk = NoChunk
    /\ processing = NoProcessing
    /\ ctlPc = "idle"
    /\ captureBlocks = 0
    /\ chunksAdded = 0
    /\ session = 0
    /\ dequeued = <<>>
    /\ flushLog = <<>>
    /\ preStopChunks = {}
    /\ stopObserved = FALSE
    /\ exitLen = 0
    /\ emittedBefore = 0
    /\ stitchLog = <<>>
    /\ addLast = NoAdd
    /\ helperLast = NoHelperCall
    /\ acceptedChunks = <<>>
    /\ wtConfig = [enableDeduplication |-> FALSE]
    /\ captureBase = 0

HistoryNext ==
    \/ \E newResults \in StitchInputs :
           FixPunctuationCall(newResults) /\ UNCHANGED <<ringVars, dedupVars, stitchFrame, addLast, helperLast>>
    \/ StitchClear /\ UNCHANGED <<ringVars, dedupVars, stitchFrame, addLast, helperLast>>

SpecHistory == HistoryInit /\ [][HistoryNext]_vars

\* The start/stop protocol under any caller: start may be called with either of two
\* callbacks at any time the caller is not inside stop; the audio is silence and the
\* engine recognizes the same sentence on every flush.
AnyCallback == {1, 2}

ControlNext ==
    \/ PipeInitialize
    \/ \E n \in ChunkSizes : AddAudioData(n, FALSE) /\ UNCHANGED addLast
    \/ \E callback \in AnyCallback : StartRealTimeProcessing(callback)
    \/ StopBegin
    \/ StopJoin
    \/ StopClear
    \/ StopReturn
    \/ WorkerLoop
    \/ WorkerLock
    \/ WorkerWait
    \/ WorkerWake
    \/ WorkerAfterWait
    \/ WorkerInner
    \/ WorkerAppend
    \/ WorkerRelock
    \/ WorkerFinal
    \/ ProcessBufferBegin
    \/ ProcessBufferEngine(EngineText(HelloWorldDot, 0, 2000))

SpecControl == PipeInit /\ [][ControlNext]_vars

\* the largest number of addAudioData calls that are observed
MaxAddCalls == 3

\* an addAudioData call together with what its caller can observe of it: the argument,
\* whether the transcriber was initialized, and whether line 122 notified the worker
AddAudioDataCall(n, speech) ==
    /\ addLast.calls < MaxAddCalls
    /\ AddAudioData(n, speech)
    /\ addLast' = [calls |-> addLast.calls + 1, n |-> n, initialized |-> initialized_,
                   notified |-> ~(~initialized_ \/ n = 0)]

\* The capture callback delivers silent chunks of any size, the empty one included, to
\* a transcriber that may or may not be initialized and may or may not be running.
AddInit == PipeInit /\ captureBase = 0

AddNext ==
    \/ PipeInitialize
    \/ \E n \in ChunkSizes \cup {0} : AddAudioDataCall(n, FALSE)
    \/ \E callback \in Callbacks : StartRealTimeProcessing(callback)
    \/ StopBegin
    \/ StopJoin
    \/ StopClear
    \/ StopReturn
    \/ WorkerLoop
    \/ WorkerLock
    \/ WorkerWait
    \/ WorkerWake
    \/ WorkerAfterWait
    \/ WorkerInner
    \/ WorkerAppend
    \/ WorkerRelock
    \/ WorkerFinal
    \/ ProcessBufferBegin
    \/ ProcessBufferEngine(EngineText(HelloWorldDot, 0, 2000))

SpecAdd == AddInit /\ [][AddNext]_vars

\* Flushes of buffers of any length: the capture callback delivers silent chunks of a
\* quarter of a second, shorter than the overlap tail, and of 2.25 s, longer than the
\* soft minimum.
TailChunkSizes == {1, 9}

OverlapInit == PipeInit /\ captureBase = 0

OverlapNext ==
    \/ PipeInitialize
    \/ \E n \in TailChunkSizes : AddAudioData(n, FALSE) /\ UNCHANGED addLast
    \/ \E callback \in Callbacks : StartRealTimeProcessing(callback)
    \/ StopBegin
    \/ StopJoin
    \/ StopClear
    \/ StopReturn
    \/ WorkerLoop
    \/ WorkerLock
    \/ WorkerWait
    \/ WorkerWake
    \/ WorkerAfterWait
    \/ WorkerInner
    \/ WorkerAppend
    \/ WorkerRelock
    \/ WorkerFinal
    \/ ProcessBufferBegin
    \/ ProcessBufferEngine(EngineText(HelloWorldDot, 0, 2000))

SpecOverlap == OverlapInit /\ [][OverlapNext]_vars

\* The worker thread and the thread inside stopRealTimeProcessing keep being scheduled,
\* the bounded wait_for returns, and a recognition-engine call returns.  Nothing obliges
\* the capture callback to deliver audio or the caller to start or stop.
PipeFairness ==
    /\ WF_vars(StopJoin)
    /\ WF_vars(StopClear)
    /\ WF_vars(StopReturn)
    /\ WF_vars(WorkerLoop)
    /\ WF_vars(WorkerLock)
    /\ WF_vars(WorkerWait)
    /\ WF_vars(WorkerWake)
    /\ WF_vars(WorkerAfterWait)
    /\ WF_vars(WorkerInner)
    /\ WF_vars(WorkerAppend)
    /\ WF_vars(WorkerRelock)
    /\ WF_vars(WorkerFinal)
    /\ WF_vars(ProcessBufferBegin)
    /\ WF_vars(\E bridge_result \in EngineOutcomes : ProcessBufferEngine(bridge_result))

\* the capture clock starts at 0; a chunk's timestamp plays no part in scheduling
PipeFairInit == PipeInit /\ captureBase = 0

SpecPipeFair == PipeFairInit /\ [][PipeNext]_vars /\ PipeFairness

(***************************************************************************)
(* Properties                                                              *)
(***************************************************************************)
IsPrefix(p, q) == Len(p) <= Len(q) /\ SubSeq(q, 1, Len(p)) = p

\* C1: a non-empty segment fed twice in a row to a fresh deduplicator, with the same text
\* and times, is fully suppressed the second time (empty text returned) and the window
\* holds only the first copy.
C1_IdempotentSuppression ==
    ( /\ Len(dedupLog) = 2
      /\ dedupLog[1].in = dedupLog[2].in
      /\ dedupLog[1].in.text # <<>> )
    => ( /\ dedupLog[2].out.text = <<>>
         /\ recentSegments_ = <<dedupLog[1].in>> )

\* C2: with sliding window 4 and threshold 0.7, after ("the quick brown fox", 0..2, 0.9)
\* the segment ("brown fox jumps", 1.5..3, 0.8) is returned trimmed to "jumps", with its
\* startTime moved forward.
C2_BrownFoxTrimmedToJumps ==
    ( /\ Len(dedupLog) = 2
      /\ dedupLog[1].cfg = Window4Config
      /\ dedupLog[2].cfg = Window4Config
      /\ dedupLog[1].in = Segment(TheQuickBrownFox, 0, 2000, 90)
      /\ dedupLog[2].in = Segment(BrownFoxJumps, 1500, 3000, 80) )
    => ( /\ dedupLog[2].out.text = Jumps
         /\ dedupLog[2].out.startTime > 1500
         /\ dedupLog[2].out.endTime = 3000 )

\* C3: after any sequence of write, read and clear calls, getAvailableSamples() +
\* getFreeSamples() == getSize(), the held count is within 0..capacity and both cursors
\* are within 0..capacity-1.
C3_RingConservation ==
    /\ getAvailableSamples + getFreeSamples = getSize
    /\ availableSamples_ \in 0..size_
    /\ getFreeSamples \in 0..size_
    /\ writeIndex_ \in 0..(size_ - 1)
    /\ readIndex_ \in 0..(size_ - 1)

\* a read has left unread samples that wrap around the end of the storage
C3_Witness ==
    /\ ringLast.op = "read"
    /\ ringLast.ret > 0
    /\ availableSamples_ > 0
    /\ writeIndex_ <= readIndex_

C5_RingFifo ==
    /\ IsPrefix(ringReturned, ringAccepted)
    /\ ringAccepted = ringReturned \o RingContents

\* more samples than the capacity have been read back, so both cursors have wrapped
C5_Witness ==
    /\ Len(ringReturned) > size_
    /\ availableSamples_ > 0
    /\ ringLast.op = "read"

RECURSIVE FlushedIds(_)
\* the ids of the chunks whose samples were handed to the engine by some flush
FlushedIds(log) ==
    IF log = <<>> THEN {}
    ELSE {Head(log).body[i] : i \in 1..Len(Head(log).body)} \cup FlushedIds(Tail(log))

RECURSIVE CountFinal(_)
\* the number of flushes made after the worker left its loop
CountFinal(log) ==
    IF log = <<>> THEN 0
    ELSE (IF Head(log).final THEN 1 ELSE 0) + CountFinal(Tail(log))

DequeuedIds == {dequeued[i].id : i \in 1..Len(dequeued)}

RECURSIVE FirstRecognized(_, _)
\* the index of the first flush from i on for which the engine recognized a segment, or 0
FirstRecognized(log, i) ==
    IF i > Len(log) THEN 0
    ELSE IF log[i].recognized # <<>> THEN i
    ELSE FirstRecognized(log, i + 1)

StopHasJoined == ctlPc \in {"stop_lock", "stop_cleared"}

\* C6: the accumulation buffer holds the hard maximum window or more only while a
\* flush of it is pending, so no chunk is appended to a buffer that has reached the
\* maximum, whatever the chunks are judged to be.
C6_ForcedFlushAtHardMaximum ==
    /\ Len(audioBuffer_) >= maxSamples => workerPc = "flush"
    /\ workerPc = "append" => Len(audioBuffer_) < maxSamples

\* C6 witness: only speech was dequeued, the buffer went past the maximum and the
\* forced flush is pending.
C6_Witness ==
    /\ workerPc = "flush"
    /\ Len(audioBuffer_) > maxSamples
    /\ Len(dequeued) >= 2
    /\ \A i \in 1..Len(dequeued) : dequeued[i].speech

\* C7: once stop has cleared the pipeline, every chunk enqueued before the worker
\* observed the stop flag has been handed to the engine by some flush.
C7_NoAudioDroppedOnStop ==
    ctlPc = "stop_cleared" => preStopChunks \subseteq FlushedIds(flushLog)

\* C8: after the worker has left its loop it flushes the remaining buffer once if it
\* was non-empty and not at all if it was empty, the final flush takes the whole
\* remaining buffer, and stop goes past join only when the worker has terminated.
C8_StopFlushesOnceAndJoins ==
    /\ CountFinal(flushLog) <= 1
    /\ (workerPc = "ended" \/ StopHasJoined) =>
           CountFinal(flushLog) = (IF exitLen > 0 THEN 1 ELSE 0)
    /\ \A i \in 1..Len(flushLog) :
           flushLog[i].final => i = Len(flushLog) /\ Len(flushLog[i].body) = exitLen
    /\ StopHasJoined => workerPc = "none" /\ ~joinable /\ shouldStop_

\* C8 witness: stop is about to return after a session with a regular flush and a
\* final flush of a non-empty remainder.
C8_Witness ==
    /\ ctlPc = "stop_cleared"
    /\ exitLen > 0
    /\ Len(flushLog) >= 2
    /\ CountFinal(flushLog) = 1

\* C9: when stop is about to return, the accumulation buffer, the overlap tail, the
\* pending queue, the recent-segment window and the stitch history are empty.
C9_StopLeavesEverythingEmpty ==
    ctlPc = "stop_cleared" =>
        /\ audioBuffer_ = <<>>
        /\ overlapBuffer_ = <<>>
        /\ audioQueue_ = <<>>
        /\ recentSegments_ = <<>>
        /\ recentResults_ = <<>>

\* C9 witness: stop is about to return from a session that emitted a segment with
\* deduplication on and that still had a chunk pending in the queue.
C9_Witness ==
    /\ ctlPc = "stop_cleared"
    /\ wtConfig.enableDeduplication
    /\ CountEmitted(flushLog) > 0
    /\ preStopChunks \ DequeuedIds # {}

\* C10: in a session started after a stop, the first flush carries no overlap tail
\* and the first recognized segment is emitted with the text the engine gave it,
\* its times shifted by the buffer start time only.
C10_RestartIsolation ==
    (session >= 2 /\ flushLog # <<>>) =>
        /\ flushLog[1].tail = <<>>
        /\ FirstRecognized(flushLog, 1) > 0 =>
               flushLog[FirstRecognized(flushLog, 1)].emitted =
                   Emit(flushLog[FirstRecognized(flushLog, 1)].recognized, 1,
                        flushLog[FirstRecognized(flushLog, 1)].startTime, <<>>)

\* C10 witness: the session before the stop emitted a segment with deduplication on,
\* and the restarted session has recognized and emitted its first segment.
C10_Witness ==
    /\ session = 2
    /\ emittedBefore > 0
    /\ wtConfig.enableDeduplication
    /\ flushLog # <<>>
    /\ flushLog[1].recognized # <<>>
    /\ Len(flushLog[1].emitted) = 1

\* the step in which the engine returns from a flush without a successful result
EngineFailedStep ==
    /\ workerPc = "engine"
    /\ Len(flushLog') = Len(flushLog) + 1
    /\ ~flushLog'[Len(flushLog')].success

\* C11: a flush on which the engine fails calls no callback, leaves the recent-segment
\* window and the stitch history as they were, finds the accumulation buffer empty and
\* hands control back to the worker where the flush was called from (the loop, unless
\* it was the final flush); and a flush that follows only such flushes in its session
\* emits what the engine recognized, as is.
C11_EngineFailureIsSwallowed ==
    /\ [][EngineFailedStep =>
             /\ flushLog'[Len(flushLog')].emitted = <<>>
             /\ flushLog'[Len(flushLog')].recognized = <<>>
             /\ recentSegments_' = recentSegments_
             /\ recentResults_' = recentResults_
             /\ audioBuffer_' = <<>>
             /\ audioQueue_' = audioQueue_
             /\ shouldStop_' = shouldStop_
             /\ workerPc' = IF flushLog'[Len(flushLog')].final THEN "ended" ELSE "relock"]_vars
    /\ [](\A j \in 1..Len(flushLog) :
             ((\A i \in 1..(j - 1) : ~flushLog[i].success) /\ flushLog[j].success) =>
                 flushLog[j].emitted =
                     Emit(flushLog[j].recognized, 1, flushLog[j].startTime, <<>>))

\* C11 witness: in one session a flush failed and a later flush of a chunk enqueued
\* after the failure emitted a segment.
C11_Witness ==
    \E i, j \in 1..Len(flushLog) :
        /\ i < j
        /\ ~flushLog[i].success
        /\ flushLog[j].success
        /\ Len(flushLog[j].emitted) = 1
        /\ flushLog[j].body # <<>>
        /\ \A k \in 1..Len(flushLog[j].body) : flushLog[j].body[k] = chunksAdded
        /\ workerPc = "relock"

\* the worker is appending to the accumulation buffer or inside processBuffer
WorkerBusy == workerPc \in {"append", "flush", "engine"}

\* C12: while the worker appends a chunk or runs a flush (engine call, overlap
\* resolution, stitching, callbacks) the queue mutex is free, so addAudioData can take
\* it and enqueue at once; the worker holds the mutex only around its wait and its pop.
C12_ProducerNeverWaitsForFlush ==
    /\ WorkerBusy => queueMutex_ = "free"
    /\ queueMutex_ = "worker" => workerPc \in {"wait", "woken", "inner"}
    /\ (WorkerBusy /\ initialized_ /\ chunksAdded < MaxChunks) =>
           \A n \in ChunkSizes : ENABLED (AddAudioData(n, TRUE) /\ UNCHANGED addLast)

\* C12 witness: the engine call of a flush is in progress and a chunk that is not part
\* of that flush sits in the queue, the mutex being free.
C12_Witness ==
    /\ workerPc = "engine"
    /\ queueMutex_ = "free"
    /\ audioQueue_ # <<>>
    /\ \A k \in 1..Len(processing.body) : processing.body[k] < Head(audioQueue_).id

\* C13: once stopRealTimeProcessing has set the stop flag, the worker exits and stop
\* returns, whatever the worker was doing and whether or not more audio arrives.
C13_StopIsObserved ==
    (ctlPc = "stop_join") ~> (ctlPc = "idle" /\ workerPc = "none" /\ ~joinable)

\* C13 witness: stop has returned from a session in which no chunk was ever enqueued,
\* so the worker was only ever waiting.
C13_Witness ==
    /\ ctlPc = "idle"
    /\ session = 1
    /\ shouldStop_
    /\ stopObserved
    /\ workerPc = "none"
    /\ ~joinable
    /\ chunksAdded = 0
    /\ initialized_

HasText(result) == result.text # <<>>

\* the segments of results that have text, with both times moved by startTime
ExpectedCalls(results, startTime) ==
    [i \in 1..Len(SelectSeq(results, HasText)) |->
        [SelectSeq(results, HasText)[i] EXCEPT !.startTime = @ + startTime,
                                               !.endTime = @ + startTime]]

\* C14: on every flush the callback is called once, in order, for each segment
\* that still has text after overlap resolution and stitch correction, with that
\* corrected text, and never with empty text; a flush never calls back more often
\* than the engine recognized segments.
C14_EmissionExactlyOnce ==
    \A i \in 1..Len(flushLog) :
        /\ flushLog[i].emitted = ExpectedCalls(flushLog[i].corrected, flushLog[i].startTime)
        /\ \A k \in 1..Len(flushLog[i].emitted) : flushLog[i].emitted[k].text # <<>>
        /\ Len(flushLog[i].emitted) <= Len(flushLog[i].recognized)

\* C14 witness: one flush emitted its segment, the next recognized a segment that
\* overlap resolution left without text and called nothing back.
C14_Witness ==
    \E i, j \in 1..Len(flushLog) :
        /\ i < j
        /\ Len(flushLog[i].emitted) = 1
        /\ flushLog[j].recognized # <<>>
        /\ flushLog[j].corrected = <<>>
        /\ flushLog[j].emitted = <<>>

\* C15: while a worker is running, startRealTimeProcessing with any callback changes
\* nothing (no second worker, the installed callback and the stop flag stay), and
\* while no worker is running, stopRealTimeProcessing changes nothing and returns.
C15_MisuseIsNoOp ==
    /\ (ctlPc = "idle" /\ joinable) =>
           \A callback \in AnyCallback :
               /\ ENABLED StartRealTimeProcessing(callback)
               /\ ~ENABLED <<StartRealTimeProcessing(callback)>>_vars
    /\ (ctlPc = "idle" /\ ~joinable) =>
           /\ ENABLED StopBegin
           /\ ~ENABLED <<StopBegin>>_vars

\* C15 witness: a worker started with callback 1 is in the middle of a flush and
\* start can be called again with callback 2.
C15_Witness ==
    /\ ctlPc = "idle"
    /\ joinable
    /\ resultCallback_ = 1
    /\ ~shouldStop_
    /\ workerPc = "engine"
    /\ ENABLED StartRealTimeProcessing(2)

\* the step in which the engine returns from a flush and the results are processed
EngineReturnsStep == workerPc = "engine" /\ Len(flushLog') = Len(flushLog) + 1

\* C16: when the engine's segment goes through the deduplicator and removing the
\* overlap detected against the window leaves it without text, processSegment returns
\* a segment with empty text and the same window, the window is left as it was, and
\* the flush calls nothing back.
C16_EmptiedSegmentIsSuppressed ==
    [][(/\ EngineReturnsStep
        /\ wtConfig.enableDeduplication
        /\ flushLog'[Len(flushLog')].recognized # <<>>
        /\ TrimAgainst(recentSegments_, Len(recentSegments_),
                       flushLog'[Len(flushLog')].recognized[1], config_).text = <<>>)
       =>
       (/\ processSegment(flushLog'[Len(flushLog')].recognized[1],
                          recentSegments_, config_).out.text = <<>>
        /\ processSegment(flushLog'[Len(flushLog')].recognized[1],
                          recentSegments_, config_).window = recentSegments_
        /\ recentSegments_' = recentSegments_
        /\ flushLog'[Len(flushLog')].emitted = <<>>)]_vars

\* C16 witness: the last flush recognized a segment that the deduplicator emptied
\* against the one segment in its window; nothing was called back for it.
C16_Witness ==
    /\ wtConfig.enableDeduplication
    /\ Len(recentSegments_) = 1
    /\ flushLog # <<>>
    /\ flushLog[Len(flushLog)].recognized # <<>>
    /\ flushLog[Len(flushLog)].recognized[1].text = recentSegments_[1].text
    /\ flushLog[Len(flushLog)].corrected = <<>>
    /\ flushLog[Len(flushLog)].emitted = <<>>

HasSegmentText(entry) == entry.out.text # <<>>

\* the segments appended since construction or the last clearContext, oldest first
AppendedSegments ==
    [i \in 1..Len(SelectSeq(dedupLog, HasSegmentText)) |->
        SelectSeq(dedupLog, HasSegmentText)[i].out]

\* C17: the window never holds more entries than the configured maxContextSegments,
\* and it is the most recently appended segments in the order they were appended
\* (so what is missing from it are the oldest).
C17_WindowBound ==
    /\ Len(recentSegments_) <= config_.maxContextSegments
    /\ Len(recentSegments_) <= Len(AppendedSegments)
    /\ recentSegments_ = SubSeq(AppendedSegments,
                                Len(AppendedSegments) - Len(recentSegments_) + 1,
                                Len(AppendedSegments))

\* the fixPunctuation call just made, when the history ended with a text ending in a
\* period and the first new text begins with a lowercase letter
PeriodThenLowercase(call) ==
    /\ call.before # <<>>
    /\ call.in # <<>>
    /\ call.before[Len(call.before)].text # <<>>
    /\ call.in[1].text # <<>>
    /\ call.before[Len(call.before)].text[Len(call.before[Len(call.before)].text)] = 46
    /\ IsLower(call.in[1].text[1])

\* the text of the previous segment as the history holds it right after the call
PreviousTextAfter(call) == recentResults_[Len(call.before)].text

\* the previous text with its last character replaced by a comma
PeriodToComma(text) == Append(SubSeq(text, 1, Len(text) - 1), 44)

LastCall == stitchLog[Len(stitchLog)]

\* C18 as stated: after every call with a previous text ending in a period and a new
\* text beginning in lowercase, the previous text has a comma in place of the period,
\* whatever the previous text is.
C18_PeriodBecomesCommaAlways ==
    (stitchLog # <<>> /\ PeriodThenLowercase(LastCall)) =>
        PreviousTextAfter(LastCall) = PeriodToComma(LastCall.before[Len(LastCall.before)].text)

\* C18 amended: the same for every previous text longer than one character; a previous
\* text that is the period alone is left as it is.
C18_PeriodBecomesComma ==
    (stitchLog # <<>> /\ PeriodThenLowercase(LastCall)) =>
        /\ Len(LastCall.before[Len(LastCall.before)].text) > 1 =>
               PreviousTextAfter(LastCall) =
                   PeriodToComma(LastCall.before[Len(LastCall.before)].text)
        /\ Len(LastCall.before[Len(LastCall.before)].text) = 1 =>
               PreviousTextAfter(LastCall) = Period

\* C18 witness: "Hello world." was in the history, "hello world again" came next and
\* the history now holds "Hello world,".
C18_Witness ==
    /\ stitchLog # <<>>
    /\ PeriodThenLowercase(LastCall)
    /\ LastCall.before[Len(LastCall.before)].text = HelloWorldDot
    /\ LastCall.in[1].text = HelloWorldAgain
    /\ PreviousTextAfter(LastCall) = PeriodToComma(HelloWorldDot)

\* the step is a write or read call that has nothing to do: a null pointer, a zero
\* length, or a write on a full buffer
RingIdleCall ==
    /\ ringLast' # ringLast
    /\ ringLast'.op \in {"write", "read"}
    /\ \/ ringLast'.isNull
       \/ ringLast'.numSamples = 0
       \/ ringLast'.op = "write" /\ availableSamples_ = size_

\* C19: a write on a full buffer, and a write or read with a null pointer or a zero
\* length, return 0 and leave the stored samples, both cursors and the held count as
\* they were; a full buffer shows as getFreeSamples() = 0.
C19_RingNonErrors ==
    /\ [][RingIdleCall =>
             /\ ringLast'.ret = 0
             /\ buffer_' = buffer_
             /\ writeIndex_' = writeIndex_
             /\ readIndex_' = readIndex_
             /\ availableSamples_' = availableSamples_
             /\ RingContents' = RingContents]_vars
    /\ [](availableSamples_ = size_ <=> getFreeSamples = 0)

\* C19 witness: a write of real samples was just made on a full buffer and returned 0.
C19_Witness ==
    /\ ringLast.op = "write"
    /\ ~ringLast.isNull
    /\ ringLast.numSamples > 0
    /\ ringLast.free = 0
    /\ ringLast.ret = 0
    /\ availableSamples_ = size_
    /\ getFreeSamples = 0

\* the step is an observed addAudioData call that was given an empty chunk or was made
\* on a transcriber that is not initialized
RejectedAddStep ==
    /\ addLast'.calls = addLast.calls + 1
    /\ ~addLast'.initialized \/ addLast'.n = 0

\* C20: addAudioData with an empty chunk, or on a transcriber that is not initialized,
\* enqueues nothing, does not notify the worker and changes no state of the pipeline,
\* of the overlap window or of the ring buffer.
C20_RejectedAddIsNoOp ==
    [][RejectedAddStep =>
          /\ ~addLast'.notified
          /\ audioQueue_' = audioQueue_
          /\ workerPc' = workerPc
          /\ UNCHANGED <<ringVars, dedupVars, stitchFrame, recentResults_, stitchLog>>]_vars

\* C20 witness: the worker is blocked in its wait on an empty queue and the last call
\* offered an empty chunk to the initialized transcriber.
C20_Witness ==
    /\ addLast.calls > 0
    /\ addLast.initialized
    /\ addLast.n = 0
    /\ ~addLast.notified
    /\ workerPc = "blocked"
    /\ audioQueue_ = <<>>

\* the worker appends the chunk it dequeued and the buffer stays below the hard maximum
AppendBelowMaximum ==
    /\ workerPc = "append"
    /\ workerPc' # "append"
    /\ Len(audioBuffer_') < maxSamples

\* C21: after appending a chunk, with the buffer below the hard maximum: if the buffer
\* has reached the soft minimum and the chunk just appended is judged non-speech, the
\* whole buffer is flushed before another chunk is dequeued; if the buffer is below the
\* soft minimum or the chunk just appended is judged speech, nothing is flushed and the
\* buffer is kept.  Only the chunk just appended is consulted.
C21_FlushDecision ==
    /\ [][AppendBelowMaximum =>
             /\ audioBuffer_' = audioBuffer_ \o Blocks(workerChunk)
             /\ (Len(audioBuffer_') >= minSamples /\ ~detectSpeech(workerChunk))
                    => workerPc' = "flush"
             /\ (Len(audioBuffer_') < minSamples \/ detectSpeech(workerChunk))
                    => workerPc' = "relock"]_vars
    /\ [][(workerPc = "flush" /\ workerRet = "relock" /\ workerPc' # workerPc) =>
             /\ workerPc' = "engine"
             /\ processing'.body = audioBuffer_
             /\ dequeued' = dequeued]_vars
    /\ [][(workerPc \in {"flush", "engine"}) => dequeued' = dequeued \/ session' # session]_vars
    /\ [][(workerPc = "relock" /\ workerPc' # workerPc) =>
             audioBuffer_' = audioBuffer_ /\ flushLog' = flushLog]_vars

\* C21 witness: a chunk judged speech was appended below the soft minimum and kept, and
\* the next chunk, judged non-speech, took the buffer to the soft minimum: the flush of
\* both is pending.
C21_Witness ==
    /\ workerPc = "flush"
    /\ workerRet = "relock"
    /\ Len(dequeued) = 2
    /\ dequeued[1].speech
    /\ ~dequeued[2].speech
    /\ dequeued[1].n < minSamples
    /\ audioBuffer_ = Blocks(dequeued[1]) \o Blocks(dequeued[2])
    /\ Len(audioBuffer_) >= minSamples
    /\ Len(audioBuffer_) < maxSamples

\* the last K seconds of a buffer, or the whole buffer when it is not longer than that
LastSeconds(buffer) ==
    [i \in 1..Min(Len(buffer), overlapSamples) |->
        buffer[Len(buffer) - Min(Len(buffer), overlapSamples) + i]]

\* C22: every flush hands the engine the retained tail followed by the whole
\* accumulation buffer; the tail is the last K seconds of the buffer flushed before, or
\* that whole buffer if it was shorter, and is empty on the first flush of a session; it
\* is never longer than K seconds, and the flush leaves the accumulation buffer empty
\* and its start timestamp cleared.
C22_FlushedAudioIsTailThenBuffer ==
    /\ [][(workerPc = "flush" /\ workerPc' = "engine") =>
             /\ processing'.audio = overlapBuffer_ \o audioBuffer_
             /\ processing'.tail = overlapBuffer_
             /\ processing'.body = audioBuffer_
             /\ overlapBuffer_' = LastSeconds(audioBuffer_)
             /\ audioBuffer_' = <<>>
             /\ bufferStartTime_' = 0]_vars
    /\ [](workerPc = "engine" =>
             /\ processing.audio = processing.tail \o processing.body
             /\ processing.tail = (IF flushLog = <<>> THEN <<>>
                                   ELSE LastSeconds(flushLog[Len(flushLog)].body))
             /\ audioBuffer_ = <<>>
             /\ bufferStartTime_ = 0)
    /\ [](\A i \in 1..Len(flushLog) :
             flushLog[i].tail = (IF i = 1 THEN <<>> ELSE LastSeconds(flushLog[i - 1].body)))
    /\ [](Len(overlapBuffer_) <= overlapSamples)

\* C22 witness: the second flush of a session was given the last K seconds of the
\* first flush's buffer, which was longer than that, in front of a buffer shorter than K
\* seconds, and that whole short buffer is now the retained tail.
C22_Witness ==
    /\ Len(flushLog) = 2
    /\ flushLog[1].tail = <<>>
    /\ Len(flushLog[1].body) > overlapSamples
    /\ Len(flushLog[2].tail) = overlapSamples
    /\ flushLog[2].tail = LastSeconds(flushLog[1].body)
    /\ Len(flushLog[2].body) < overlapSamples
    /\ overlapBuffer_ = flushLog[2].body

\* the step is a processSegment call; its argument and its return value
ProcessSegmentStep == dedupCalls' = dedupCalls + 1
CallIn == dedupLog'[Len(dedupLog')].in
CallOut == dedupLog'[Len(dedupLog')].out

\* no entry of the window satisfies prevEnd > currStart && currEnd > prevStart
NoEntryOverlapsInTime(seg) ==
    \A i \in 1..Len(recentSegments_) :
        ~(recentSegments_[i].endTime > seg.startTime
          /\ seg.endTime > recentSegments_[i].startTime)

\* the window after the call is the window before it with seg appended, less the
\* oldest entry if the maximum size was exceeded
AppendedToWindow(seg) ==
    \/ recentSegments_' = Append(recentSegments_, seg)
    \/ /\ Len(recentSegments_) >= config_.maxContextSegments
       /\ recentSegments_' = Tail(Append(recentSegments_, seg))

PassedThrough ==
    /\ CallOut.text = CallIn.text
    /\ CallOut.startTime = CallIn.startTime
    /\ CallOut.endTime = CallIn.endTime

\* C23 as stated: a segment that no window entry overlaps in time is returned with
\* text, startTime and endTime unchanged and is appended to the window, for every
\* segment.
C23_TemporalGatingAlways ==
    [][(ProcessSegmentStep /\ NoEntryOverlapsInTime(CallIn)) =>
          PassedThrough /\ AppendedToWindow(CallOut)]_vars

\* C23: a segment with non-empty text that no window entry overlaps in time (entries
\* that merely touch it at an endpoint do not overlap) is returned with text, startTime
\* and endTime unchanged and is appended to the window, whatever the texts are; with
\* empty text it is returned unchanged and the window is left as it was.
C23_TemporalGating ==
    [][(ProcessSegmentStep /\ NoEntryOverlapsInTime(CallIn)) =>
          /\ PassedThrough
          /\ CallIn.text # <<>> => AppendedToWindow(CallOut)
          /\ CallIn.text = <<>> => recentSegments_' = recentSegments_]_vars

\* C23 witness: "go on" from 0 to 2 s is in the window and the same text from 2 s to 4 s,
\* touching it at 2 s, was returned unchanged and appended after it.
C23_Witness ==
    /\ Len(dedupLog) >= 2
    /\ Len(recentSegments_) >= 2
    /\ dedupLog[Len(dedupLog)].in = Segment(GoOn, 2000, 4000, 90)
    /\ dedupLog[Len(dedupLog)].out = Segment(GoOn, 2000, 4000, 90)
    /\ recentSegments_[Len(recentSegments_)] = Segment(GoOn, 2000, 4000, 90)
    /\ recentSegments_[Len(recentSegments_) - 1] = Segment(GoOn, 0, 2000, 90)

\* W: the configured sliding window capped by the shorter sequence's word count
SearchWindow(call) ==
    Min(call.cfg.slidingWindowSize, Min(Len(call.prevWords), Len(call.currWords)))

\* the triples <<prevStart, currStart, length>> with 1 <= length <= W that fit in both
\* word sequences, prevStart being drawn from prevStarts
TriplesFrom(call, prevStarts) ==
    {t \in prevStarts \X (0..(Len(call.currWords) - 1)) \X (1..SearchWindow(call)) :
        t[1] + t[3] <= Len(call.prevWords) /\ t[2] + t[3] <= Len(call.currWords)}

AllPrevStarts(call) == 0..(Len(call.prevWords) - 1)
LastPrevStarts(call) ==
    (Len(call.prevWords) - SearchWindow(call))..(Len(call.prevWords) - 1)

\* the similarity of the two sub-spans a triple names
TripleSimilarity(call, t) ==
    calculateSimilarity(joinWords(call.prevWords, t[1], t[1] + t[3]),
                        joinWords(call.currWords, t[2], t[2] + t[3]), call.cfg)

SameScore(a, b) == SimGE(a, b) /\ SimGE(b, a)

\* the call reports an overlap exactly when a triple of T reaches the threshold, and then
\* reports a triple of T whose similarity is the maximum over T
SearchIsCompleteOver(call, T) ==
    LET ret == call.ret
        reported == <<ret.prevWordStart, ret.currWordStart,
                      ret.currWordEnd - ret.currWordStart>>
    IN  /\ ret.hasOverlap <=>
               \E t \in T : SimGE(TripleSimilarity(call, t), call.cfg.overlapThreshold)
        /\ ret.hasOverlap =>
               /\ reported \in T
               /\ ret.prevWordEnd - ret.prevWordStart = reported[3]
               /\ SameScore(ret.similarity, TripleSimilarity(call, reported))
               /\ \A t \in T : SimGE(ret.similarity, TripleSimilarity(call, t))

\* C24 as stated: the search ranges over all triples of the two word sequences.
C24_SearchOverAllTriples ==
    helperLast.fn = "detectOverlap" =>
        SearchIsCompleteOver(helperLast, TriplesFrom(helperLast, AllPrevStarts(helperLast)))

\* C24: detectOverlap reports an overlap exactly when some triple (prevStart, currStart,
\* length) with 1 <= length <= W whose prevStart lies among the last W words of the
\* previous sequence has sub-span similarity >= the threshold, and the reported triple's
\* similarity is the maximum over those triples.
C24_SearchOverLastWords ==
    helperLast.fn = "detectOverlap" =>
        SearchIsCompleteOver(helperLast, TriplesFrom(helperLast, LastPrevStarts(helperLast)))

\* C24 witness: the previous text has more words than the window, the reported overlap
\* starts among its last W words and scores below 1, and an earlier word of the previous
\* text that the search does not reach equals a word of the current text.
C24_Witness ==
    /\ helperLast.fn = "detectOverlap"
    /\ helperLast.ret.hasOverlap
    /\ Len(helperLast.prevWords) > SearchWindow(helperLast)
    /\ SimGT(<<1, 1>>, helperLast.ret.similarity)
    /\ \E t \in TriplesFrom(helperLast, AllPrevStarts(helperLast)) :
           /\ t \notin TriplesFrom(helperLast, LastPrevStarts(helperLast))
           /\ SameScore(TripleSimilarity(helperLast, t), <<1, 1>>)

\* two characters that are the same letter in different case
SameLetterOtherCase(c, d) ==
    \/ c \in 65..90 /\ d = c + 32
    \/ d \in 65..90 /\ c = d + 32

\* two different strings of one length that differ only in the case of letters
DiffersOnlyInCase(a, b) ==
    /\ Len(a) = Len(b)
    /\ a # b
    /\ \A i \in 1..Len(a) : a[i] = b[i] \/ SameLetterOtherCase(a[i], b[i])

\* C25: calculateSimilarity returns 1.0 for identical strings, 0.95 for strings that
\* differ only in letter case and, with fuzzy matching disabled, 0.0 for every other
\* pair; every score lies in [0, 1]; with the default threshold 0.7 two texts that
\* differ only in letter case are reported as an overlap by detectOverlap.
C25_SimilarityPrecedence ==
    /\ helperLast.fn = "calculateSimilarity" =>
          /\ helperLast.text1 = helperLast.text2 => SameScore(helperLast.ret, <<1, 1>>)
          /\ DiffersOnlyInCase(helperLast.text1, helperLast.text2)
                 => SameScore(helperLast.ret, <<95, 100>>)
          /\ (/\ ~helperLast.cfg.enableFuzzyMatching
              /\ helperLast.text1 # helperLast.text2
              /\ ~DiffersOnlyInCase(helperLast.text1, helperLast.text2))
                 => SameScore(helperLast.ret, <<0, 1>>)
          /\ helperLast.ret[2] > 0
          /\ SimGE(helperLast.ret, <<0, 1>>)
          /\ SimGE(<<1, 1>>, helperLast.ret)
    /\ (/\ helperLast.fn = "detectOverlap"
        /\ helperLast.cfg.overlapThreshold = <<7, 10>>
        /\ DiffersOnlyInCase(TextOf(helperLast.prevWords), TextOf(helperLast.currWords)))
           => helperLast.ret.hasOverlap

\* C25 witness: "Hello World" and "hello world" were compared with fuzzy matching
\* disabled and scored 0.95, which is at least the threshold.
C25_Witness ==
    /\ helperLast.fn = "calculateSimilarity"
    /\ helperLast.text1 = HelloWorldUpper
    /\ helperLast.text2 = HelloWorldLower
    /\ ~helperLast.cfg.enableFuzzyMatching
    /\ SameScore(helperLast.ret, <<95, 100>>)
    /\ SimGE(helperLast.ret, helperLast.cfg.overlapThreshold)

\* the window entries that overlap seg in time and in content
OverlappingEntries(seg) ==
    {i \in 1..Len(recentSegments_) :
        /\ recentSegments_[i].endTime > seg.startTime
        /\ seg.endTime > recentSegments_[i].startTime
        /\ detectOverlap(recentSegments_[i], seg, config_).hasOverlap}

\* the most recent of them
MostRecent(S) == CHOOSE k \in S : \A j \in S : j <= k

\* words without the span from word s (0-based) up to, not including, word e
WordsWithout(words, s, e) == SubSeq(words, 1, s) \o SubSeq(words, e + 1, Len(words))

\* the returned segment is seg with the span of the overlap removed from its words
SpanRemoved(seg, out, overlap) ==
    /\ overlap.currWordEnd > overlap.currWordStart
    /\ splitWords(out.text) =
           WordsWithout(splitWords(seg.text), overlap.currWordStart, overlap.currWordEnd)

\* every entry the window held is still there, unmodified, except the oldest if it was
\* evicted
EntriesUntouched ==
    \/ recentSegments_' = recentSegments_
    \/ \E seg \in {recentSegments_'[Len(recentSegments_')]} :
           \/ recentSegments_' = Append(recentSegments_, seg)
           \/ recentSegments_' = Tail(Append(recentSegments_, seg))

\* C26: whenever processSegment finds an overlap, the overlapping word span is removed
\* from the current segment, whether resolveConflict returns true or false, and no
\* segment already in the window has its text or times changed.
C26_ConflictNeverChangesWhatIsKept ==
    [][ProcessSegmentStep =>
          /\ (CallIn.text # <<>> /\ OverlappingEntries(CallIn) # {}) =>
                 SpanRemoved(CallIn, CallOut,
                             detectOverlap(recentSegments_[MostRecent(OverlappingEntries(CallIn))],
                                           CallIn, config_))
          /\ recentSegments_' # <<>> => EntriesUntouched
          /\ recentSegments_' = <<>> => recentSegments_ = <<>>]_vars

\* C26 witness: "on we go" with confidence 0.5 met "go on" with confidence 0.9 in the
\* window, resolveConflict was false (the previous segment wins), and the shared word
\* was still removed from the current segment.
C26_Witness ==
    /\ Len(dedupLog) = 2
    /\ dedupLog[1].in = Segment(GoOn, 0, 2000, 90)
    /\ dedupLog[1].out = dedupLog[1].in
    /\ dedupLog[2].in = Segment(OnWeGo, 1000, 3000, 50)
    /\ ~resolveConflict(dedupLog[1].out, dedupLog[2].in, dedupLog[2].cfg)
    /\ Len(splitWords(dedupLog[2].out.text)) < Len(splitWords(dedupLog[2].in.text))
    /\ recentSegments_[1] = dedupLog[1].in

RECURSIVE JoinedByOneSpace(_)
\* the words in order, with exactly one space between neighbours
JoinedByOneSpace(words) ==
    IF words = <<>> THEN <<>>
    ELSE IF Len(words) = 1 THEN words[1]
    ELSE words[1] \o <<32>> \o JoinedByOneSpace(Tail(words))

\* what every removeOverlap call does to the text: the remaining words in their order,
\* joined by one space
RemainingWordsKept(call) ==
    call.ret.text = JoinedByOneSpace(WordsWithout(call.words, call.start, call.end))

\* startTime moved forward by removedWordCount / totalWordCount of the duration
StartShifted(call) ==
    /\ call.ret.startTime =
           call.current.startTime
           + ((call.current.endTime - call.current.startTime) * (call.end - call.start))
                 \div Len(call.words)
    /\ call.ret.endTime = call.current.endTime
    /\ call.current.startTime <= call.ret.startTime
    /\ call.ret.startTime <= call.ret.endTime

TimesKept(call) ==
    /\ call.ret.startTime = call.current.startTime
    /\ call.ret.endTime = call.current.endTime

\* C27 as stated: every overlap that starts at word 0 moves startTime forward by the
\* removed share of the duration.
C27_TrimmingAlwaysShifts ==
    helperLast.fn = "removeOverlap" =>
        /\ RemainingWordsKept(helperLast)
        /\ helperLast.start = 0 => StartShifted(helperLast)
        /\ helperLast.start > 0 => TimesKept(helperLast)

\* C27: when the overlap starts at word 0 and leaves words behind, the result is the
\* remaining words and startTime moves forward by removedWordCount / totalWordCount of
\* the duration, endTime unchanged; when it starts at word 0 and covers every word, the
\* text is empty and both times are unchanged; when it starts later, the span is
\* spliced out, the words before and after are joined with exactly one space, and both
\* times are unchanged.  The remaining words keep their order.
C27_Trimming ==
    helperLast.fn = "removeOverlap" =>
        /\ RemainingWordsKept(helperLast)
        /\ (helperLast.start = 0 /\ helperLast.end < Len(helperLast.words))
               => StartShifted(helperLast)
        /\ (helperLast.start = 0 /\ helperLast.end = Len(helperLast.words))
               => helperLast.ret.text = <<>> /\ TimesKept(helperLast)
        /\ helperLast.start > 0 => TimesKept(helperLast)

\* C27 witness: the middle word of three loosely spaced words was spliced out and the
\* two others are returned with one space between them.
C27_Witness ==
    /\ helperLast.fn = "removeOverlap"
    /\ helperLast.loose
    /\ Len(helperLast.words) = 3
    /\ helperLast.start = 1
    /\ helperLast.end = 2
    /\ helperLast.ret.text = helperLast.words[1] \o <<32>> \o helperLast.words[3]
    /\ TimesKept(helperLast)

\* the strings one single-character deletion, insertion or substitution away from s
OneEdit(s) ==
    {SubSeq(s, 1, i - 1) \o SubSeq(s, i + 1, Len(s)) : i \in 1..Len(s)}
    \cup {SubSeq(s, 1, i) \o <<c>> \o SubSeq(s, i + 1, Len(s)) :
              i \in 0..Len(s), c \in TextAlphabet}
    \cup {[s EXCEPT ![i] = c] : i \in 1..Len(s), c \in TextAlphabet}

RECURSIVE EditSteps(_, _, _)
\* the least number of edits that lead from a string of the set reached to target, given
\* that steps edits led to reached; no edit sequence of least length passes through a
\* string longer than both ends, and the length of the longer end is always enough
EditSteps(reached, target, steps) ==
    IF steps >= 0 /\ target \in reached THEN steps
    ELSE EditSteps(reached \cup {t \in UNION {OneEdit(s) : s \in reached} :
                                     Len(t) <= MaxTextLen},
                   target, steps + 1)

\* C28: levenshteinDistance(a, b) is the least number of single-character insertions,
\* deletions and substitutions that turn a into b, for all strings of up to MaxTextLen
\* characters, the empty string included; it is symmetric and 0 exactly when a = b, and
\* never exceeds the longer length, so the fuzzy score stays within [0, 1].
C28_LevenshteinIsEditDistance ==
    helperLast.fn = "levenshteinDistance" =>
        /\ helperLast.ret = EditSteps({helperLast.s1}, helperLast.s2, 0)
        /\ helperLast.ret = levenshteinDistance(helperLast.s2, helperLast.s1)
        /\ helperLast.ret = 0 <=> helperLast.s1 = helperLast.s2
        /\ helperLast.ret >= 0
        /\ helperLast.ret <= Max(Len(helperLast.s1), Len(helperLast.s2))
        /\ SimGE(FuzzyScore(helperLast.ret, Max(Len(helperLast.s1), Len(helperLast.s2))),
                 <<0, 1>>)
        /\ SimGE(<<1, 1>>,
                 FuzzyScore(helperLast.ret, Max(Len(helperLast.s1), Len(helperLast.s2))))

\* C28 witness: two strings of the greatest length that share no character at any
\* position are as far apart as they are long.
C28_Witness ==
    /\ helperLast.fn = "levenshteinDistance"
    /\ Len(helperLast.s1) = MaxTextLen
    /\ Len(helperLast.s2) = MaxTextLen
    /\ helperLast.s1[1] = helperLast.s1[MaxTextLen]
    /\ \A i \in 1..MaxTextLen : helperLast.s2[i] # helperLast.s1[1]
    /\ helperLast.ret = MaxTextLen

\* the text of the previous segment as the history held it before the call
PreviousTextBefore(call) == call.before[Len(call.before)].text

\* the fixPunctuation call had a previous text that is non-empty and does not end with
\* '.', '!' or '?', and a first new text that begins with an uppercase letter
NoTerminalThenUppercase(call) ==
    /\ call.before # <<>>
    /\ call.in # <<>>
    /\ PreviousTextBefore(call) # <<>>
    /\ PreviousTextBefore(call)[Len(PreviousTextBefore(call))] \notin {46, 33, 63}
    /\ call.in[1].text # <<>>
    /\ call.in[1].text[1] \in 65..90

\* the last 10 characters of text are a prefix of the longer-than-10 text newText
LastTenArePrefix(text, newText) ==
    /\ Len(text) > 10
    /\ Len(newText) > 10
    /\ \A k \in 1..10 : newText[k] = text[Len(text) - 10 + k]

\* C29: after every call whose previous text is non-empty and does not end with '.',
\* '!' or '?' and whose first new text begins with an uppercase letter, the stored
\* previous text has a period appended; the rule leaves the new text as it is (only the
\* duplicate-prefix rule may change it); and no call both replaces the period by a comma
\* and appends a period.
C29_PeriodAppendedBeforeUppercase ==
    stitchLog # <<>> =>
        /\ NoTerminalThenUppercase(LastCall) =>
               /\ PreviousTextAfter(LastCall) = Append(PreviousTextBefore(LastCall), 46)
               /\ \/ LastCall.out[1].text = LastCall.in[1].text
                  \/ LastTenArePrefix(PreviousTextAfter(LastCall), LastCall.in[1].text)
        /\ ~(PeriodThenLowercase(LastCall) /\ NoTerminalThenUppercase(LastCall))
        /\ (LastCall.before # <<>> /\ LastCall.in # <<>> /\ PreviousTextBefore(LastCall) # <<>>) =>
               PreviousTextAfter(LastCall) \in
                   {PreviousTextBefore(LastCall),
                    PeriodToComma(PreviousTextBefore(LastCall)),
                    Append(PreviousTextBefore(LastCall), 46)}

\* C29 witness: "hello world again" was in the history, "Hello World" came next, the
\* history now holds "hello world again." and "Hello World" was returned as it came.
C29_Witness ==
    /\ stitchLog # <<>>
    /\ NoTerminalThenUppercase(LastCall)
    /\ PreviousTextBefore(LastCall) = HelloWorldAgain
    /\ LastCall.in[1].text = HelloWorldUpper
    /\ PreviousTextAfter(LastCall) = Append(HelloWorldAgain, 46)
    /\ LastCall.out[1].text = HelloWorldUpper

\* the last 10 characters of text are a prefix of newText, both of at least 10 characters
LastTenArePrefixFromTen(text, newText) ==
    /\ Len(text) >= 10
    /\ Len(newText) >= 10
    /\ \A k \in 1..10 : newText[k] = text[Len(text) - 10 + k]

\* newText without its first 10 characters and without the white space that follows them
AfterPrefixAndBlanks(newText) ==
    LET rest == SubSeq(newText, 11, Len(newText))
        blanks == {n \in 0..Len(rest) : \A k \in 1..n : rest[k] \in {32, 9, 10, 13}}
        lead == CHOOSE n \in blanks : \A m \in blanks : m <= n
    IN  SubSeq(rest, lead + 1, Len(rest))

\* the call had a previous segment and a new one
HasBoundary(call) == call.before # <<>> /\ call.in # <<>>

\* C30 as stated: the prefix is stripped for previous and new texts of any length of at
\* least 10 characters.
C30_PrefixStrippedFromTen ==
    (/\ stitchLog # <<>>
     /\ HasBoundary(LastCall)
     /\ LastTenArePrefixFromTen(PreviousTextAfter(LastCall), LastCall.in[1].text)) =>
        LastCall.out[1].text = AfterPrefixAndBlanks(LastCall.in[1].text)

\* C30: whenever the previous text, as the punctuation rules of the call leave it, and
\* the first new text are both longer than 10 characters and the last 10 characters of
\* the previous text are a prefix of the new text, that prefix and the white space
\* following it are stripped from the new text; texts of 10 characters or fewer are
\* never stripped.
C30_PrefixStripped ==
    (stitchLog # <<>> /\ HasBoundary(LastCall)) =>
        /\ LastTenArePrefix(PreviousTextAfter(LastCall), LastCall.in[1].text) =>
               LastCall.out[1].text = AfterPrefixAndBlanks(LastCall.in[1].text)
        /\ (Len(PreviousTextAfter(LastCall)) <= 10 \/ Len(LastCall.in[1].text) <= 10) =>
               LastCall.out[1].text = LastCall.in[1].text

\* C30 witness: "say good night" was in the history, "good night  moon" came next and
\* "moon" was returned.
C30_Witness ==
    /\ stitchLog # <<>>
    /\ HasBoundary(LastCall)
    /\ PreviousTextBefore(LastCall) = SayGoodNight
    /\ PreviousTextAfter(LastCall) = SayGoodNight
    /\ LastCall.in[1].text = GoodNightMoon
    /\ LastCall.out[1].text = SubSeq(GoodNightMoon, 13, 16)
    /\ Len(LastCall.out[1].text) = 4

\* what a fixPunctuation call had to keep: the history before it, then what it returned
HistoryThenReturned(call) == call.before \o call.out

\* the history holds the last entries of all, in their order; only the text of the
\* entry that was the previous segment of the call may have been retouched
HoldsLatestOf(call, all) ==
    LET dropped == Len(all) - Len(recentResults_)
    IN  /\ Len(recentResults_) = Min(Len(all), MAX_RECENT_RESULTS)
        /\ \A k \in 1..Len(recentResults_) :
               IF k + dropped = Len(call.before) /\ call.in # <<>>
               THEN /\ recentResults_[k].startTime = all[k + dropped].startTime
                    /\ recentResults_[k].endTime = all[k + dropped].endTime
                    /\ recentResults_[k].confidence = all[k + dropped].confidence
               ELSE recentResults_[k] = all[k + dropped]

\* C31: the stitch history never holds more than MAX_RECENT_RESULTS segments; after
\* every fixPunctuation call it holds the latest segments of the history before the call
\* followed by the returned ones, in that order, the oldest having been evicted on
\* overflow; and a call with no segment leaves the history as it was.
C31_StitchHistoryBound ==
    /\ Len(recentResults_) <= MAX_RECENT_RESULTS
    /\ stitchLog # <<>> =>
           /\ HoldsLatestOf(LastCall, HistoryThenReturned(LastCall))
           /\ LastCall.in = <<>> => recentResults_ = LastCall.before

\* C31 witness: the history was full, a call returned a segment, and the history is
\* still full, now beginning with what was its second segment and ending with the new one.
C31_Witness ==
    /\ stitchLog # <<>>
    /\ Len(LastCall.before) = MAX_RECENT_RESULTS
    /\ Len(LastCall.out) = 1
    /\ Len(recentResults_) = MAX_RECENT_RESULTS
    /\ recentResults_[1] = LastCall.before[2]
    /\ recentResults_[MAX_RECENT_RESULTS] = LastCall.out[1]

\* the step is a read call with a destination and a length above zero
RingReadStep ==
    /\ ringLast' # ringLast
    /\ ringLast'.op = "read"
    /\ ~ringLast'.isNull
    /\ ringLast'.numSamples > 0

\* the step is a write call with a source and a length above zero
RingWriteStep ==
    /\ ringLast' # ringLast
    /\ ringLast'.op = "write"
    /\ ~ringLast'.isNull
    /\ ringLast'.numSamples > 0

RingClearStep == ringLast' # ringLast /\ ringLast'.op = "clear"

\* the samples of a sequence, as a set
SamplesOf(samples) == {samples[k] : k \in 1..Len(samples)}

\* C32: read(n) returns min(n, held count) samples, the oldest unread ones, decreases the
\* held count by that number and advances the read cursor by it, leaving the write cursor
\* and the storage alone; write advances the write cursor by what it stored and leaves the
\* read cursor alone; clear() leaves the buffer empty (available 0, free == capacity);
\* and every sample held or returned was written since the last clear.
C32_ReadWriteClearEffects ==
    /\ [][RingReadStep =>
             /\ ringLast'.ret = Min(ringLast'.numSamples, availableSamples_)
             /\ availableSamples_' = availableSamples_ - ringLast'.ret
             /\ readIndex_' = (readIndex_ + ringLast'.ret) % size_
             /\ writeIndex_' = writeIndex_
             /\ buffer_' = buffer_
             /\ ringReturned' = ringReturned \o SubSeq(RingContents, 1, ringLast'.ret)
             /\ RingContents' = SubSeq(RingContents, ringLast'.ret + 1, Len(RingContents))]_vars
    /\ [][RingWriteStep =>
             /\ writeIndex_' = (writeIndex_ + ringLast'.ret) % size_
             /\ readIndex_' = readIndex_
             /\ availableSamples_' = availableSamples_ + ringLast'.ret]_vars
    /\ [][RingClearStep =>
             /\ getAvailableSamples' = 0
             /\ getFreeSamples' = getSize
             /\ RingContents' = <<>>]_vars
    /\ [](/\ SamplesOf(RingContents) \subseteq SamplesOf(ringAccepted)
          /\ SamplesOf(ringReturned) \subseteq SamplesOf(ringAccepted))

\* C32 witness: samples were written, the buffer was cleared while it held some, more
\* samples were written, and a read asking for more than the buffer holds has just
\* returned all of them, the first being one written after the clear.
C32_Witness ==
    /\ ringLast.op = "read"
    /\ ~ringLast.isNull
    /\ ringLast.ret >= 1
    /\ ringLast.ret < ringLast.numSamples
    /\ availableSamples_ = 0
    /\ ringAccepted # <<>>
    /\ ringAccepted[1] > 1
    /\ ringReturned[1] = ringAccepted[1]

\* the thread is between the lock and the unlock of a call
WriterInside == ringWriter.pc \in {"begin", "loop", "unlock"}
ReaderInside == ringReader.pc \in {"begin", "loop", "clearReadIndex", "clearAvailable", "unlock"}

\* the thread is inside a call whose effect on the shared fields is only partly made
WriterMidway == ringWriter.pc \in {"begin", "loop"}
ReaderMidway == ringReader.pc \in {"begin", "loop", "clearReadIndex", "clearAvailable"}

\* what a single-threaded AudioBuffer satisfies between calls
RingConsistent ==
    /\ getAvailableSamples + getFreeSamples = getSize
    /\ availableSamples_ \in 0..size_
    /\ writeIndex_ = (readIndex_ + availableSamples_) % size_
    /\ IsPrefix(ringReturned, ringAccepted)
    /\ ringAccepted = ringReturned \o RingContents

\* the last Len(tail) elements of samples are tail
EndsWith(samples, tail) ==
    /\ Len(tail) <= Len(samples)
    /\ SubSeq(samples, Len(samples) - Len(tail) + 1, Len(samples)) = tail

\* C33: with one thread in write and another in read, clear or getAvailableSamples, at
\* most one of them is between its lock and its unlock, and it is the holder of mutex_;
\* whenever no call is midway the conservation and FIFO properties hold; a call that has
\* the lock never sees the other thread's call partly applied; and at its return each
\* call has had the effect of the whole call: a write stored the first samples of its
\* input up to the free space, a read returned the oldest unread samples up to the held
\* count, getAvailableSamples returned the number of samples accepted and not returned.
C33_RingCallsAreAtomic ==
    /\ ~(WriterInside /\ ReaderInside)
    /\ (mutex_ = "writer") <=> WriterInside
    /\ (mutex_ = "reader") <=> ReaderInside
    /\ (~WriterMidway /\ ~ReaderMidway) => RingConsistent
    /\ ringWriter.pc = "unlock" =>
           /\ ringWriter.ret = ringWriter.numSamples \/ availableSamples_ = size_
           /\ EndsWith(ringAccepted, SubSeq(WriteData(ringWriter.first, ringWriter.numSamples),
                                            1, ringWriter.ret))
    /\ (ringReader.pc = "unlock" /\ ringReader.op = "read") =>
           /\ ringReader.ret = ringReader.numSamples \/ availableSamples_ = 0
           /\ Len(ringReader.data) = ringReader.ret
           /\ EndsWith(ringReturned, ringReader.data)
    /\ (ringReader.pc = "unlock" /\ ringReader.op = "getAvailableSamples") =>
           ringReader.ret = Len(ringAccepted) - Len(ringReturned)
    /\ (ringReader.pc = "unlock" /\ ringReader.op = "clear") =>
           /\ availableSamples_ = 0
           /\ RingContents = <<>>

\* C33 witness: the reader holds the lock at the end of a read that returned samples
\* from both sides of the end of the storage, while the writer, called with more samples,
\* waits for the lock.
C33_Witness ==
    /\ mutex_ = "reader"
    /\ ringReader.pc = "unlock"
    /\ ringReader.op = "read"
    /\ ringReader.ret >= 2
    /\ readIndex_ < ringReader.ret
    /\ readIndex_ > 0
    /\ ringWriter.pc = "lock"
    /\ ringWriter.numSamples > 0

\* the state that only the text processing uses: accumulation buffer, overlap tail,
\* RecentSegmentWindow and stitch history
confined == <<audioBuffer_, overlapBuffer_, recentSegments_, recentResults_>>

\* the worker thread exists and has not returned from processingThreadFunction
WorkerAlive == workerPc \notin {"none", "ended"}

\* the step is one of the worker thread, and the worker is alive when it takes it
WorkerStep == WorkerAlive /\ workerPc' # workerPc /\ ctlPc' = ctlPc

\* the step is the clearing of stopRealTimeProcessing, made after join has returned
ClearAfterJoinStep ==
    /\ ctlPc = "stop_lock"
    /\ ctlPc' = "stop_cleared"
    /\ workerPc = "none"
    /\ ~joinable

\* C34: every step that changes the accumulation buffer, the overlap tail, the
\* RecentSegmentWindow or the stitch history is a step of the live worker thread or the
\* clearing that stopRealTimeProcessing makes once join has returned; while the worker is
\* alive the controlling thread is outside start and stop or waiting in join, and
\* addAudioData changes none of the four.
C34_TextStateIsConfined ==
    /\ [][confined' # confined => (WorkerStep \/ ClearAfterJoinStep)]_vars
    /\ [](WorkerAlive => ctlPc \in {"idle", "stop_join"})
    /\ [](ctlPc \in {"stop_lock", "stop_cleared"} => (workerPc = "none" /\ ~joinable))
    /\ [][chunksAdded' # chunksAdded => confined' = confined]_vars

\* C34 witness: the worker has flushed in this session and has ended, join has returned,
\* and stopRealTimeProcessing has just cleared the four.
C34_Witness ==
    /\ ctlPc = "stop_cleared"
    /\ workerPc = "none"
    /\ flushLog # <<>>
    /\ flushLog[1].corrected # <<>>
    /\ confined = <<<<>>, <<>>, <<>>, <<>>>>

\* C35: a processSegment call on a segment with empty text returns that segment, every
\* field as it was given, and leaves the RecentSegmentWindow as it was: nothing is
\* appended and nothing is evicted, even from a window that is full.
C35_EmptyTextIsNoOp ==
    [][(ProcessSegmentStep /\ CallIn.text = <<>>) =>
          /\ CallOut = CallIn
          /\ recentSegments_' = recentSegments_]_vars

\* C35 witness: the window held as many segments as it may, a segment with empty text
\* was processed and returned, and the window still holds the same two segments.
C35_Witness ==
    /\ Len(dedupLog) >= 3
    /\ config_ = SmallNoFuzzyConfig
    /\ dedupLog[Len(dedupLog)].cfg = SmallNoFuzzyConfig
    /\ dedupLog[Len(dedupLog)].in = Segment(<<>>, 0, 1000, 90)
    /\ dedupLog[Len(dedupLog)].out = Segment(<<>>, 0, 1000, 90)
    /\ Len(recentSegments_) = SmallNoFuzzyConfig.maxContextSegments
    /\ recentSegments_[1] = dedupLog[1].out
    /\ recentSegments_[2] = dedupLog[2].out

RECURSIVE FlushedBodies(_)
\* the accumulation buffers handed to the flushes of the session, one after the other
FlushedBodies(log) ==
    IF log = <<>> THEN <<>> ELSE Head(log).body \o FlushedBodies(Tail(log))

\* the audio the worker holds outside the accumulation buffer: the buffer of a flush
\* that waits for the engine, and the chunk popped from the queue and not yet appended
BodyAtEngine == IF processing = NoProcessing THEN <<>> ELSE processing.body
ChunkInHand == IF workerChunk = NoChunk THEN <<>> ELSE Blocks(workerChunk)

\* C36: from startRealTimeProcessing until stopRealTimeProcessing has joined the worker,
\* the chunks queued by addAudioData since construction or the last stop are, in call
\* order, the chunks the worker has dequeued followed by the ones still queued; the
\* buffers handed to flushes, in flush order, followed by the audio the worker still
\* holds, are the dequeued chunks in order, each once; hence the flushed audio is a
\* prefix of the accepted audio.
C36_StreamIntegrity ==
    /\ joinable =>
           /\ acceptedChunks = dequeued \o audioQueue_
           /\ IsPrefix(FlushedBodies(flushLog), BlocksOf(acceptedChunks))
    /\ FlushedBodies(flushLog) \o BodyAtEngine \o audioBuffer_ \o ChunkInHand
           = BlocksOf(dequeued)

\* C36 witness: two chunks were accepted, each was flushed on its own, in call order,
\* and the session is still running.
C36_Witness ==
    /\ joinable
    /\ Len(acceptedChunks) = 2
    /\ Len(flushLog) = 2
    /\ flushLog[1].body = Blocks(acceptedChunks[1])
    /\ flushLog[2].body = Blocks(acceptedChunks[2])
    /\ acceptedChunks[1].id < acceptedChunks[2].id

\* the capture timestamp of the first chunk of the buffer that a flush was handed
FirstChunkTime(flush) ==
    LET first == CHOOSE j \in 1..Len(dequeued) : dequeued[j].id = flush.body[1]
    IN  dequeued[first].ts

\* C37: the start time that each flush of the session adds to the timestamps of its
\* segments is the capture timestamp of the first chunk appended to the accumulation
\* buffer since the previous flush or the session start, whatever that timestamp is,
\* 0.0 included.
C37_FlushStartIsFirstChunkTime ==
    \A k \in 1..Len(flushLog) : flushLog[k].startTime = FirstChunkTime(flushLog[k])

\* no call of start or stop is in progress and no worker thread exists: the last
\* stopRealTimeProcessing has returned (or none was ever needed) and
\* startRealTimeProcessing has not been called since
StoppedAndReturned == ~joinable /\ ctlPc = "idle"

\* the step invokes the result callback at least once
CallbackStep ==
    /\ Len(flushLog') = Len(flushLog) + 1
    /\ flushLog'[Len(flushLog')].emitted # <<>>

\* the step is a successful startRealTimeProcessing
StartStep == session' = session + 1

\* C38: from the return of stopRealTimeProcessing until the next
\* startRealTimeProcessing no step invokes the result callback or runs a flush, whatever
\* addAudioData calls are made, and an addAudioData call leaves the transcriber stopped;
\* every invocation of the callback is made by the worker before join returns.
C38_NoCallbackAfterStop ==
    /\ [][StoppedAndReturned =>
             \/ StartStep
             \/ /\ flushLog' = flushLog
                /\ ~CallbackStep
                /\ StoppedAndReturned'
                /\ workerPc' = "none"]_vars
    /\ [][CallbackStep => (joinable /\ workerPc = "engine" /\ ctlPc \in {"idle", "stop_join"})]_vars

\* C38 witness: a session emitted a segment and was stopped, stopRealTimeProcessing has
\* returned, and a chunk accepted by addAudioData since then waits in the queue.
C38_Witness ==
    /\ StoppedAndReturned
    /\ session > 0
    /\ workerPc = "none"
    /\ CountEmitted(flushLog) >= 1
    /\ audioQueue_ # <<>>
    /\ acceptedChunks = audioQueue_

\* out is words with one contiguous span of words, possibly empty, left out
OneSpanRemoved(words, out) ==
    \E s \in 0..Len(words) : \E e \in s..Len(words) : out = WordsWithout(words, s, e)

\* C39: a processSegment call on a segment with text trims it against at most one window
\* entry: when no entry overlaps it in time and in content it is returned as it came;
\* otherwise it is trimmed once, by the overlap with the most recent such entry, however
\* many older entries overlap it too; so the returned words are the words of the input
\* with at most one contiguous span removed.
C39_TrimmedAgainstOneEntry ==
    [][(ProcessSegmentStep /\ CallIn.text # <<>>) =>
          /\ OverlappingEntries(CallIn) = {} => CallOut = CallIn
          /\ OverlappingEntries(CallIn) # {} =>
                 CallOut = removeOverlap(
                               CallIn,
                               detectOverlap(recentSegments_[MostRecent(OverlappingEntries(CallIn))],
                                             CallIn, config_))
          /\ OneSpanRemoved(splitWords(CallIn.text), splitWords(CallOut.text))]_vars

\* C39 witness: the window held "go on" twice, both entries overlapping "on we go" in
\* time and in content; "on we go" lost one word to the more recent entry and kept the
\* word that the older entry would have taken as well.
C39_Witness ==
    /\ Len(dedupLog) = 3
    /\ dedupLog[1].out = Segment(GoOn, 0, 2000, 90)
    /\ dedupLog[2].out = Segment(GoOn, 2000, 4000, 90)
    /\ dedupLog[3].in = Segment(OnWeGo, 1000, 3000, 50)
    /\ detectOverlap(dedupLog[1].out, dedupLog[3].in, dedupLog[3].cfg).hasOverlap
    /\ detectOverlap(dedupLog[2].out, dedupLog[3].in, dedupLog[3].cfg).hasOverlap
    /\ detectOverlap(dedupLog[1].out, dedupLog[3].out, dedupLog[3].cfg).hasOverlap
    /\ Len(splitWords(dedupLog[3].out.text)) = 2

====
